---- MODULE Spec2Model ----
(***************************************************************************)
(* Model of the product scraping agent (scraper_agent): the pagination     *)
(* handler, the page loop of ProductScrapingAgent, the rate limiter and    *)
(* the data cleaner.                                                       *)
(*                                                                         *)
(* Strings whose content matters are sequences of one-character strings.   *)
(* Python's None is the one-element sequence <<"None">>, which is not a    *)
(* character sequence.                                                     *)
(***************************************************************************)
EXTENDS Integers, Sequences, FiniteSets, TLC

VARIABLES
    \* PaginationHandler
    visited_urls,        \* PaginationHandler.visited_urls
    current_page,        \* PaginationHandler.current_page
    max_pages,           \* PaginationHandler.max_pages
    custom_next_selector,\* PaginationHandler.custom_next_selector is set
    \* history of the handler since construction or reset()
    pagResult,           \* value returned by the last get_next_page_url
    pagCalls,            \* number of get_next_page_url calls
    pagReturned,         \* number of calls that returned a URL
    pagPassed,           \* URLs passed as current_url
    \* DataCleaner.clean
    cleanInput,          \* argument products of clean()
    cleanOutput,         \* list returned by clean()
    cleanDone,           \* clean() has returned
    \* ProductScrapingAgent and its environment
    config,              \* ScraperConfig of the agent
    site,                \* which site the engine fetches from
    robots_disallow,     \* URLs robots.txt disallows
    _shutdown_requested, \* ProductScrapingAgent._shutdown_requested
    _consecutive_errors, \* RateLimiter._consecutive_errors
    _scraper,            \* ProductScrapingAgent._scraper
    handlers,            \* the process's SIGINT and SIGTERM handlers
    _original_sigint,    \* ProductScrapingAgent._original_sigint
    _original_sigterm,   \* ProductScrapingAgent._original_sigterm
    pc,                  \* position of the running scrape() call
    current_url,         \* locals of _scrape_all_pages
    page_num,
    consecutive_empty,
    all_products,
    html,
    result,              \* records of the DataFrame the last scrape() returned
    \* history of the agent
    runs,                \* scrape() calls that have returned
    fetched,             \* URLs passed to fetch_page in this run, in order
    stop,                \* why the page loop of this run ended
    lastFetch,           \* first outcome, attempts and fate of the last page fetch
    emptyStreak,         \* consecutive pages of this run without a product
    flagIter,            \* page_num when a signal set the flag in this run
    startSnap,           \* flag and error count when this scrape() started
    \* landing.analyzer
    lpc,                 \* position of the analyzer call
    pickArgs,            \* arguments of the last _pick_top_diverse call
    pickResult,          \* list it returned
    ranked_all,          \* colours counted on the page, most common first
    deterministic_colors, \* list _extract_brand_colors returned
    data,                \* normalized oracle output
    evidence,            \* evidence record of the page
    profile,             \* profile _post_validate returned
    \* engines.base, parser, openai_extractor
    ppc,                 \* position of the extraction of one page or record
    locArgs,             \* soup and configuration of the last locator call
    located,             \* containers find_product_containers returned
    parseArgs,           \* container or oracle object the record is made from
    extracted,           \* record of parse_product or the oracle extractor
    validatedOne,        \* the record after _validate_products
    cleanedOne,          \* the list clean() returns for the record
    \* rate_limiter, as the page loop drives it
    rlpc,                \* position of the page loop between its limiter calls
    rate_limiter,        \* the RateLimiter: its config and _consecutive_errors
    crawl_delay,         \* crawl delay scrape() took from robots.txt (0: none)
    delay,               \* delay the last wait() chose (-1: none yet)
    rlRuns,              \* scrape() calls so far
    rlFetches,           \* fetch_page calls of this run so far
    \* one call of get_next_page_url or _find_by_url_pattern
    spc,                 \* "ready", or which of the two has returned
    nextArgs,            \* soup, current_url and handler state of the call
    nextUrl,             \* what the call returned
    \* the landing server's request limiter
    landing_config,      \* rate_limit_enabled, rate_limit_per_minute
    clock,               \* time.monotonic(), in seconds
    _rate_limit_store,   \* client key -> timestamps of its recorded requests
    threads,             \* per request thread: position, client key, now
    admitted,            \* client key -> timestamps of the admitted requests
    ticks,               \* number of clock steps so far
    requests             \* number of requests that have arrived

pagVars == <<visited_urls, current_page, max_pages, custom_next_selector,
             pagResult, pagCalls, pagReturned, pagPassed>>

cleanVars == <<cleanInput, cleanOutput, cleanDone>>

agentVars == <<config, site, robots_disallow, _shutdown_requested,
               _consecutive_errors, _scraper, handlers, _original_sigint,
               _original_sigterm, pc, current_url, page_num, consecutive_empty,
               all_products, html, result, runs, fetched, stop, lastFetch,
               emptyStreak, flagIter, startSnap>>

landVars == <<lpc, pickArgs, pickResult, ranked_all, deterministic_colors,
              data, evidence, profile>>

\* the components outside pagination, cleaner and agent
parseVars == <<ppc, locArgs, located, parseArgs, extracted, validatedOne,
               cleanedOne>>

limVars == <<rlpc, rate_limiter, crawl_delay, delay, rlRuns, rlFetches>>

stratVars == <<spc, nextArgs, nextUrl>>

serverVars == <<landing_config, clock, _rate_limit_store, threads, admitted,
                ticks, requests>>

moreVars == <<limVars, stratVars, serverVars>>

restVars == <<landVars, parseVars, moreVars>>

vars == <<pagVars, cleanVars, agentVars, restVars>>

-----------------------------------------------------------------------------
(* Bounds *)

MaxPagesBound == 3      \* max_pages is drawn from 1..MaxPagesBound
MaxCalls      == 5      \* get_next_page_url calls per handler life
MaxStdLinks   == 2      \* standard selectors that match on one page
MaxTextLinks  == 1      \* anchors matching a "next" text on one page
MaxRecords    == 3      \* records in the list given to clean()
MaxRetriesBound == 2    \* max_retries is drawn from 1..MaxRetriesBound
MaxRuns       == 2      \* scrape() calls on one agent
MaxColors     == 3      \* colours counted on one page
MaxPick       == 3      \* n of _pick_top_diverse is drawn from 1..MaxPick
MaxPatterns   == 2      \* built-in patterns of the container locator
MaxLimRuns    == 3      \* scrape() calls on one rate limiter
MaxLimFetches == 3      \* fetch_page calls of one run of the limiter
MaxThreads    == 2      \* request threads of the landing server
MaxRequests   == 4      \* requests that arrive at the landing server
MaxTicks      == 3      \* steps of the monotonic clock

-----------------------------------------------------------------------------
(* Strings: sequences of one-character strings *)

None   == <<"None">>        \* Python None
NonStr == <<"NonStr">>      \* a value that is not a string (a JSON number)

IsStr(v)  == v # None /\ v # NonStr
Truthy(v) == v # None /\ v # <<>>       \* Python truthiness

WS       == {" ", "\t", "\n"}                               \* \s
Digits   == {"0", "1", "2", "3", "4", "5", "6", "7", "8", "9"}   \* \d
Currency == {"$", "€", "£", "¥", "₹"}

UpperChars == <<"A", "B", "C", "D", "E", "F", "G", "H", "I", "J", "K", "L", "M", "N", "O", "P", "Q", "R", "S", "T", "U", "V", "W", "X", "Y", "Z">>
LowerChars == <<"a", "b", "c", "d", "e", "f", "g", "h", "i", "j", "k", "l", "m", "n", "o", "p", "q", "r", "s", "t", "u", "v", "w", "x", "y", "z">>

\* str.lower() on one character
LowerChar(c) ==
    IF \E i \in 1..Len(UpperChars) : UpperChars[i] = c
    THEN LowerChars[CHOOSE i \in 1..Len(UpperChars) : UpperChars[i] = c]
    ELSE c

\* str.lower()
Lower(s) == [i \in 1..Len(s) |-> LowerChar(s[i])]

\* s[i:] with i counted from 1
From(s, i) == SubSeq(s, i, Len(s))

RECURSIVE LStrip(_)
LStrip(s) == IF s # <<>> /\ Head(s) \in WS THEN LStrip(Tail(s)) ELSE s

RECURSIVE RStrip(_)
RStrip(s) ==
    IF s # <<>> /\ s[Len(s)] \in WS THEN RStrip(SubSeq(s, 1, Len(s) - 1)) ELSE s

\* str.strip()
Strip(s) == RStrip(LStrip(s))

\* s.startswith(w)
StartsWith(s, w) == Len(s) >= Len(w) /\ SubSeq(s, 1, Len(w)) = w

\* w in s
Contains(s, w) ==
    \E i \in 1..(Len(s) - Len(w) + 1) : SubSeq(s, i, i + Len(w) - 1) = w

\* length of the longest prefix of s made of characters of the class C
RECURSIVE Span(_, _)
Span(s, C) == IF s # <<>> /\ Head(s) \in C THEN 1 + Span(Tail(s), C) ELSE 0

\* s without its longest prefix in class C
Skip(s, C) == From(s, Span(s, C) + 1)

\* s without one leading character of class C, when there is one (C?)
SkipOpt(s, C) == IF s # <<>> /\ Head(s) \in C THEN Tail(s) ELSE s

\* re.sub(r'\s+', ' ', s)
RECURSIVE CollapseWs(_)
CollapseWs(s) ==
    IF s = <<>> THEN <<>>
    ELSE IF Head(s) \in WS THEN <<" ">> \o CollapseWs(Skip(s, WS))
    ELSE <<Head(s)>> \o CollapseWs(Tail(s))

\* Least position of a set of positions, or 0 for the empty set: the start
\* of a leftmost regex match among the positions where a match starts
LeastIn(I) ==
    IF I = {} THEN 0 ELSE CHOOSE i \in I : \A j \in I : i <= j

-----------------------------------------------------------------------------
(* DataCleaner *)

JunkPrefixes == << <<"n", "e", "w">>, <<"s", "a", "l", "e">>, <<"h", "o", "t">>, <<"b", "e", "s", "t", " ", "s", "e", "l", "l", "e", "r">>, <<"t", "r", "e", "n", "d", "i", "n", "g">> >>
JunkSeps == WS \cup {"!", ":", "|", "-"}         \* [\s!:|-]

MaxNameLen == 300

\* re.sub(r'^(New|Sale|Hot|Best Seller|Trending)[\s!:|-]+', '', s, IGNORECASE)
RECURSIVE SubJunkPrefix(_, _)
SubJunkPrefix(s, k) ==
    IF k > Len(JunkPrefixes) THEN s
    ELSE LET w == JunkPrefixes[k]
             rest == From(s, Len(w) + 1)
         IN  IF StartsWith(Lower(s), w) /\ Span(rest, JunkSeps) >= 1
             THEN Skip(rest, JunkSeps)
             ELSE SubJunkPrefix(s, k + 1)

\* t matches \s*\(?\d+\s*reviews?\)?$ (IGNORECASE) as a whole
MatchesReviews(t) ==
    LET a == SkipOpt(Skip(t, WS), {"("})
        b == Skip(a, Digits)
        c == Skip(b, WS)
        d == From(c, 7)
        e == SkipOpt(SkipOpt(d, {"s", "S"}), {")"})
    IN  /\ Span(a, Digits) >= 1
        /\ StartsWith(Lower(c), <<"r", "e", "v", "i", "e", "w">>)
        /\ e = <<>>

\* re.sub(r'\s*\(?\d+\s*reviews?\)?$', '', s, IGNORECASE)
SubReviews(s) ==
    LET i == LeastIn({k \in 1..Len(s) : MatchesReviews(From(s, k))})
    IN  IF i = 0 THEN s ELSE SubSeq(s, 1, i - 1)

\* t matches \s*-\s*$ as a whole
MatchesDash(t) ==
    LET a == Skip(t, WS)
    IN  a # <<>> /\ Head(a) = "-" /\ Skip(Tail(a), WS) = <<>>

\* re.sub(r'\s*-\s*$', '', s)
SubDash(s) ==
    LET i == LeastIn({k \in 1..Len(s) : MatchesDash(From(s, k))})
    IN  IF i = 0 THEN s ELSE SubSeq(s, 1, i - 1)

\* DataCleaner._clean_name
_clean_name(name) ==
    LET n0 == Strip(CollapseWs(name))
        n1 == Strip(SubJunkPrefix(n0, 1))
        n2 == Strip(SubReviews(n1))
        n3 == Strip(SubDash(n2))
    IN  IF Len(n3) > MaxNameLen
        THEN SubSeq(n3, 1, MaxNameLen - 3) \o <<".", ".", ".">>
        ELSE n3

PriceChars == Digits \cup {","}                  \* [\d,]

\* length of the match of [\$€£¥₹]?\s*[\d,]+\.?\d*\s*[\$€£¥₹]? at the
\* start of t, or 0 when it does not match there
PriceMatchLen(t) ==
    LET a == SkipOpt(t, Currency)
        b == Skip(a, WS)
        c == Skip(b, PriceChars)
        d == Skip(SkipOpt(c, {"."}), Digits)
        e == SkipOpt(Skip(d, WS), Currency)
    IN  IF Span(b, PriceChars) >= 1 THEN Len(t) - Len(e) ELSE 0

\* re.search of the price pattern: the leftmost match, or None
RECURSIVE SearchPrice(_, _)
SearchPrice(s, i) ==
    IF i > Len(s) THEN None
    ELSE LET n == PriceMatchLen(From(s, i))
         IN  IF n > 0 THEN SubSeq(s, i, i + n - 1) ELSE SearchPrice(s, i + 1)

\* DataCleaner._clean_price
_clean_price(price) ==
    IF ~Truthy(price) THEN None
    ELSE LET p == Strip(price)
             m == SearchPrice(p, 1)
         IN  IF m # None THEN Strip(m)
             ELSE IF \E i \in 1..Len(p) : p[i] \in Digits THEN p ELSE None

\* a float held as a number of hundredths
Num(cents) == <<"num", cents>>

\* s without the characters outside class C
RECURSIVE Keep(_, _)
Keep(s, C) ==
    IF s = <<>> THEN <<>>
    ELSE IF Head(s) \in C THEN <<Head(s)>> \o Keep(Tail(s), C)
    ELSE Keep(Tail(s), C)

\* s.replace(c, r) for a character c and a string r
RECURSIVE ReplaceChar(_, _, _)
ReplaceChar(s, c, r) ==
    IF s = <<>> THEN <<>>
    ELSE (IF Head(s) = c THEN r ELSE <<Head(s)>>) \o ReplaceChar(Tail(s), c, r)

\* s.index(c) counted from 1, 0 when c is not in s
IndexOf(s, c) ==
    IF \E i \in 1..Len(s) : s[i] = c
    THEN CHOOSE i \in 1..Len(s) : s[i] = c /\ \A j \in 1..(i - 1) : s[j] # c
    ELSE 0

\* the last piece of s.split(c)
RECURSIVE LastPart(_, _)
LastPart(s, c) ==
    IF IndexOf(s, c) = 0 THEN s ELSE LastPart(From(s, IndexOf(s, c) + 1), c)

DigitChars == <<"0", "1", "2", "3", "4", "5", "6", "7", "8", "9">>
DigitValue(c) == CHOOSE n \in 0..9 : DigitChars[n + 1] = c

\* int() of a string of decimal digits ("" counts 0)
RECURSIVE DecValue(_)
DecValue(s) ==
    IF s = <<>> THEN 0
    ELSE DecValue(SubSeq(s, 1, Len(s) - 1)) * 10 + DigitValue(s[Len(s)])

\* float(s) accepts s: digits with at most one '.', at least one digit
IsFloatLiteral(s) ==
    /\ \A i \in 1..Len(s) : s[i] \in Digits \cup {"."}
    /\ Cardinality({i \in 1..Len(s) : s[i] = "."}) <= 1
    /\ \E i \in 1..Len(s) : s[i] \in Digits

\* round(float(s), 2) in hundredths; a tie in the third decimal goes to
\* the even hundredth
RoundedCents(s) ==
    LET dot == IndexOf(s, ".")
        ip  == IF dot = 0 THEN s ELSE SubSeq(s, 1, dot - 1)
        fp  == IF dot = 0 THEN <<>> ELSE From(s, dot + 1)
        f2  == SubSeq(fp \o <<"0", "0">>, 1, 2)
        rest == From(fp, 3)
        base == DecValue(ip) * 100 + DecValue(f2)
        third == IF rest = <<>> THEN 0 ELSE DigitValue(rest[1])
        more == \E i \in 2..Len(rest) : rest[i] # "0"
        up == \/ third > 5
              \/ third = 5 /\ more
              \/ third = 5 /\ ~more /\ base % 2 = 1
    IN  IF up THEN base + 1 ELSE base

\* _extract_numeric_price that takes every lone comma for a thousands
\* separator
ExtractNumericPriceCommaThousands(price) ==
    IF ~Truthy(price) THEN None
    ELSE LET c0 == Keep(price, Digits \cup {".", ","})
             hasC == IndexOf(c0, ",") # 0
             hasD == IndexOf(c0, ".") # 0
             c1 == IF hasC /\ hasD
                   THEN IF IndexOf(c0, ",") > IndexOf(c0, ".")
                        THEN ReplaceChar(ReplaceChar(c0, ".", <<>>), ",", <<".">>)
                        ELSE ReplaceChar(c0, ",", <<>>)
                   ELSE ReplaceChar(c0, ",", <<>>)
         IN  IF IsFloatLiteral(c1) THEN Num(RoundedCents(c1)) ELSE None

\* DataCleaner._extract_numeric_price
_extract_numeric_price(price) ==
    IF ~Truthy(price) THEN None
    ELSE LET c0 == Keep(price, Digits \cup {".", ","})
             hasC == IndexOf(c0, ",") # 0
             hasD == IndexOf(c0, ".") # 0
             c1 == IF hasC /\ hasD
                   THEN IF IndexOf(c0, ",") > IndexOf(c0, ".")
                        THEN ReplaceChar(ReplaceChar(c0, ".", <<>>), ",", <<".">>)
                        ELSE ReplaceChar(c0, ",", <<>>)
                   ELSE IF hasC
                   THEN IF Len(LastPart(c0, ",")) = 2
                        THEN ReplaceChar(c0, ",", <<".">>)
                        ELSE ReplaceChar(c0, ",", <<>>)
                   ELSE c0
         IN  IF IsFloatLiteral(c1) THEN Num(RoundedCents(c1)) ELSE None

InStockWords  == << <<"i", "n", " ", "s", "t", "o", "c", "k">>, <<"a", "v", "a", "i", "l", "a", "b", "l", "e">>, <<"i", "n", "-", "s", "t", "o", "c", "k">> >>
OutStockWords == << <<"o", "u", "t", " ", "o", "f", " ", "s", "t", "o", "c", "k">>, <<"s", "o", "l", "d", " ", "o", "u", "t">>, <<"u", "n", "a", "v", "a", "i", "l", "a", "b", "l", "e">>, <<"o", "u", "t", "-", "o", "f", "-", "s", "t", "o", "c", "k">> >>
PreOrderWords == << <<"p", "r", "e", "-", "o", "r", "d", "e", "r">>, <<"p", "r", "e", "o", "r", "d", "e", "r">>, <<"c", "o", "m", "i", "n", "g", " ", "s", "o", "o", "n">> >>
LimitedWords  == << <<"l", "i", "m", "i", "t", "e", "d">>, <<"f", "e", "w", " ", "l", "e", "f", "t">>, <<"l", "o", "w", " ", "s", "t", "o", "c", "k">> >>

\* any(kw in text for kw in words)
AnyIn(text, words) == \E k \in 1..Len(words) : Contains(text, words[k])

\* DataCleaner._clean_availability
_clean_availability(availability) ==
    IF ~Truthy(availability) THEN <<"U", "n", "k", "n", "o", "w", "n">>
    ELSE LET text == Strip(Lower(availability))
         IN  IF AnyIn(text, InStockWords) THEN <<"I", "n", " ", "S", "t", "o", "c", "k">>
             ELSE IF AnyIn(text, OutStockWords) THEN <<"O", "u", "t", " ", "o", "f", " ", "S", "t", "o", "c", "k">>
             ELSE IF AnyIn(text, PreOrderWords) THEN <<"P", "r", "e", "-", "O", "r", "d", "e", "r">>
             ELSE IF AnyIn(text, LimitedWords) THEN <<"L", "i", "m", "i", "t", "e", "d", " ", "S", "t", "o", "c", "k">>
             ELSE <<"U", "n", "k", "n", "o", "w", "n">>

TrackingPrefixes == << <<"u", "t", "m", "_">>, <<"r", "e", "f", "=">>, <<"t", "a", "g", "=">> >>

\* re.sub(r'[&?](utm_[^&]*|ref=[^&]*|tag=[^&]*)', '', url)
RECURSIVE SubTracking(_)
SubTracking(s) ==
    IF s = <<>> THEN <<>>
    ELSE IF /\ Head(s) \in {"&", "?"}
            /\ \E k \in 1..Len(TrackingPrefixes) : StartsWith(Tail(s), TrackingPrefixes[k])
         THEN LET amp == IndexOf(Tail(s), "&")
              IN  IF amp = 0 THEN <<>> ELSE SubTracking(From(Tail(s), amp))
         ELSE <<Head(s)>> \o SubTracking(Tail(s))

\* DataCleaner._clean_url
_clean_url(url) ==
    IF ~Truthy(url) THEN None
    ELSE LET u == SubTracking(Strip(url))
         IN  IF StartsWith(u, <<"/", "/">>) THEN <<"h", "t", "t", "p", "s", ":">> \o u
             ELSE IF StartsWith(u, <<"h", "t", "t", "p", ":", "/", "/">>) \/ StartsWith(u, <<"h", "t", "t", "p", "s", ":", "/", "/">>) THEN u
             ELSE None

\* raw and cleaned product records
RawProduct(n, p, a, u, i) ==
    [name |-> n, price |-> p, availability |-> a, product_url |-> u, image_url |-> i]

CleanedProduct(n, p, pn, a, u, i) ==
    [name |-> n, price |-> p, price_numeric |-> pn, availability |-> a,
     product_url |-> u, image_url |-> i]

\* _clean_product returned None, or raised and clean() skipped the record
NoProduct == CleanedProduct(None, None, None, None, None, None)

\* DataCleaner._clean_product; a field that is not a string makes the
\* string method called on it raise, and clean() skips the record
_clean_product(product) ==
    LET name == IF Truthy(product.name) THEN _clean_name(product.name)
                ELSE product.name
    IN  IF NonStr \in {product.name, product.price, product.availability,
                       product.product_url, product.image_url}
        THEN NoProduct
        ELSE IF ~Truthy(name) \/ Len(name) < 2 THEN NoProduct
        ELSE CleanedProduct(name,
                            _clean_price(product.price),
                            _extract_numeric_price(product.price),
                            _clean_availability(product.availability),
                            _clean_url(product.product_url),
                            _clean_url(product.image_url))

\* the deduplication key of _deduplicate
DedupKey(product) == <<Strip(Lower(product.name)), product.price>>

\* _deduplicate that keeps the last record of each key
RECURSIVE DeduplicateKeepLast(_)
DeduplicateKeepLast(products) ==
    IF products = <<>> THEN <<>>
    ELSE LET rest == Tail(products)
         IN  IF \E i \in 1..Len(rest) : DedupKey(rest[i]) = DedupKey(Head(products))
             THEN DeduplicateKeepLast(rest)
             ELSE <<Head(products)>> \o DeduplicateKeepLast(rest)

\* loop of _deduplicate from record i on, with the keys seen so far
RECURSIVE DedupFrom(_, _, _)
DedupFrom(products, i, seen) ==
    IF i > Len(products) THEN <<>>
    ELSE LET key == DedupKey(products[i])
         IN  IF key \notin seen
             THEN <<products[i]>> \o DedupFrom(products, i + 1, seen \cup {key})
             ELSE DedupFrom(products, i + 1, seen)

\* DataCleaner._deduplicate
_deduplicate(products) == DedupFrom(products, 1, {})

\* the loop of clean(): the records _clean_product returns, in order
RECURSIVE CleanEach(_)
CleanEach(products) ==
    IF products = <<>> THEN <<>>
    ELSE LET c == _clean_product(Head(products))
         IN  (IF c = NoProduct THEN <<>> ELSE <<c>>) \o CleanEach(Tail(products))

\* DataCleaner.clean
clean(products) ==
    IF products = <<>> THEN <<>> ELSE _deduplicate(CleanEach(products))

-----------------------------------------------------------------------------
(* URLs.  A URL is [path, segs, q]: the path without its /page/N segments, *)
(* the numbers of the /page/N segments in order, and the query as a        *)
(* sequence of <<key, value>> pairs.  A value is <<tag, n>>:               *)
(*   <<"int", n>>  the canonical decimal of n                              *)
(*   <<"txt", 0>>  a non-numeric text in canonical percent-encoding        *)
(*   <<"raw", 0>>  the same text in a non-canonical encoding (a%20b)       *)
(*   <<"blank",0>> the empty value (k=)                                    *)

IntVal(n) == <<"int", n>>
TxtVal    == <<"txt", 0>>
RawVal    == <<"raw", 0>>
BlankVal  == <<"blank", 0>>

MkUrl(p, s, q) == [path |-> p, segs |-> s, q |-> q]
NoUrl == MkUrl("None", <<>>, <<>>)          \* Python None for a URL

\* hrefs of link elements
Href(k, u)  == [kind |-> k, url |-> u]
AbsHref(u)  == Href("abs", u)               \* href="http://..."
QueryHref(q)== Href("query", MkUrl("", <<>>, q))   \* href="?k=v"
HashHref    == Href("hash", NoUrl)          \* href="#"
EmptyHref   == Href("empty", NoUrl)         \* href=""
NoHref      == Href("nohref", NoUrl)        \* element without href
Absent      == Href("absent", NoUrl)        \* no element matches
BadHref     == Href("bad", NoUrl)           \* href="//[": urljoin raises ValueError

\* the call did not return: a ValueError left it
RaisedUrl == MkUrl("ValueError", <<>>, <<>>)

\* urllib.parse.urljoin(current_url, href) for a non-empty href
urljoin(cur, h) ==
    CASE h.kind = "abs"   -> h.url
      [] h.kind = "query" -> [cur EXCEPT !.q = h.url.q]
      [] OTHER            -> cur            \* "#": the URL without fragment

\* keys of an ordered dict held as a sequence of <<key, values>>
RECURSIVE DictIndex(_, _, _)
DictIndex(d, k, i) ==
    IF i > Len(d) THEN 0
    ELSE IF d[i][1] = k THEN i ELSE DictIndex(d, k, i + 1)

HasKey(d, k) == DictIndex(d, k, 1) # 0
DictGet(d, k) == d[DictIndex(d, k, 1)][2]
DictSet(d, k, v) == [d EXCEPT ![DictIndex(d, k, 1)] = <<k, v>>]

\* urllib.parse.parse_qs: values grouped per key in order of first
\* appearance, blank values dropped, percent-encoding decoded
RECURSIVE parse_qs_from(_, _, _)
parse_qs_from(q, i, d) ==
    IF i > Len(q) THEN d
    ELSE LET k == q[i][1]
             v == IF q[i][2][1] = "raw" THEN TxtVal ELSE q[i][2]
         IN  IF q[i][2] = BlankVal THEN parse_qs_from(q, i + 1, d)
             ELSE IF HasKey(d, k)
                  THEN parse_qs_from(q, i + 1,
                          DictSet(d, k, Append(DictGet(d, k), v)))
                  ELSE parse_qs_from(q, i + 1, Append(d, <<k, <<v>>>>))

parse_qs(q) == parse_qs_from(q, 1, <<>>)

\* urllib.parse.urlencode(params, doseq=True)
RECURSIVE urlencode(_)
urlencode(d) ==
    IF d = <<>> THEN <<>>
    ELSE [i \in 1..Len(d[1][2]) |-> <<d[1][1], d[1][2][i]>>]
         \o urlencode(Tail(d))

\* int(s): defined on decimal values only (ValueError otherwise)
IsInt(v) == v[1] = "int"

-----------------------------------------------------------------------------
(* PaginationHandler *)

page_params   == <<"page", "p", "pg", "pagenum", "page_num", "pagenumber">>
offset_params == <<"start", "offset", "from", "begin">>
page_sizes    == <<24, 20, 12, 10, 48, 36, 25, 50>>

\* _find_by_selector without the visited_urls test
FindBySelectorNoVisitedCheck(h, cur, visited) ==
    IF h.kind \in {"abs", "query", "hash"} THEN urljoin(cur, h) ELSE NoUrl

\* _find_by_selector on the first element the selector matches
_find_by_selector(h, cur, visited) ==
    IF h.kind \in {"abs", "query", "hash"}
    THEN LET url == urljoin(cur, h)
         IN  IF url \notin visited THEN url ELSE NoUrl
    ELSE NoUrl

\* _find_by_standard_selectors: std holds, for each PAGINATION_SELECTORS
\* entry that matches, the href of its first match, in selector order
RECURSIVE _find_by_standard_selectors(_, _, _)
_find_by_standard_selectors(std, cur, visited) ==
    IF std = <<>> THEN NoUrl
    ELSE LET url == _find_by_selector(Head(std), cur, visited)
         IN  IF url # NoUrl THEN url
             ELSE _find_by_standard_selectors(Tail(std), cur, visited)

\* _find_by_text: text holds the hrefs of the anchors that match a
\* NEXT_PAGE_TEXT pattern (by text or aria-label), in the order the
\* nested loops reach them
RECURSIVE _find_by_text(_, _, _)
_find_by_text(text, cur, visited) ==
    IF text = <<>> THEN NoUrl
    ELSE LET h == Head(text)
             url == urljoin(cur, h)
         IN  IF h.kind = "bad" THEN RaisedUrl     \* urljoin is not guarded here
             ELSE IF h.kind \in {"abs", "query"} /\ url \notin visited THEN url
             ELSE _find_by_text(Tail(text), cur, visited)

\* str.replace("/page/n", "/page/n+1") on one /page/s segment: the segment
\* changes when the decimal of s starts with the decimal of n
ReplaceSeg(s, n) ==
    IF s = n THEN n + 1
    ELSE IF s >= 10 /\ s < 100 /\ s \div 10 = n
         THEN (n + 1) * 10 + (s % 10)
         ELSE s

\* offset loop of _find_by_url_pattern
RECURSIVE OffsetSizes(_, _, _, _, _, _)
OffsetSizes(cur, visited, params, param, off, j) ==
    \* result: <<url, params>>; url = NoUrl when every size is visited
    IF j > Len(page_sizes) THEN <<NoUrl, params>>
    ELSE LET p2 == DictSet(params, param, <<IntVal(off + page_sizes[j])>>)
             new_url == [cur EXCEPT !.q = urlencode(p2)]
         IN  IF new_url \notin visited THEN <<new_url, p2>>
             ELSE OffsetSizes(cur, visited, p2, param, off, j + 1)

RECURSIVE OffsetLoop(_, _, _, _)
OffsetLoop(cur, visited, params, i) ==
    IF i > Len(offset_params) THEN NoUrl
    ELSE LET param == offset_params[i]
         IN  IF HasKey(params, param) /\ IsInt(DictGet(params, param)[1])
             THEN LET r == OffsetSizes(cur, visited, params, param,
                                       DictGet(params, param)[1][2], 1)
                  IN  IF r[1] # NoUrl THEN r[1]
                      ELSE OffsetLoop(cur, visited, r[2], i + 1)
             ELSE OffsetLoop(cur, visited, params, i + 1)

\* path step of _find_by_url_pattern: the query is the original one
PathStep(cur, visited, params) ==
    IF cur.segs # <<>>
    THEN LET n == cur.segs[1]
             new_url == [cur EXCEPT !.segs =
                            [i \in 1..Len(cur.segs) |-> ReplaceSeg(cur.segs[i], n)]]
         IN  IF new_url \notin visited THEN new_url
             ELSE OffsetLoop(cur, visited, params, 1)
    ELSE OffsetLoop(cur, visited, params, 1)

\* page-parameter loop of _find_by_url_pattern; params keeps the
\* assignment made for a candidate that was rejected as visited
RECURSIVE PageParamLoop(_, _, _, _)
PageParamLoop(cur, visited, params, i) ==
    IF i > Len(page_params) THEN PathStep(cur, visited, params)
    ELSE LET param == page_params[i]
         IN  IF HasKey(params, param) /\ IsInt(DictGet(params, param)[1])
             THEN LET p2 == DictSet(params, param,
                               <<IntVal(DictGet(params, param)[1][2] + 1)>>)
                      new_url == [cur EXCEPT !.q = urlencode(p2)]
                  IN  IF new_url \notin visited THEN new_url
                      ELSE PageParamLoop(cur, visited, p2, i + 1)
             ELSE PageParamLoop(cur, visited, params, i + 1)

\* PaginationHandler._find_by_url_pattern
_find_by_url_pattern(cur, visited) ==
    PageParamLoop(cur, visited, parse_qs(cur.q), 1)

\* strategies 1-4 of get_next_page_url, below the page cap
NextByStrategies(soup, cur, visited, custom) ==
    LET s1 == IF custom THEN _find_by_selector(soup.custom, cur, visited)
              ELSE NoUrl
        s2 == _find_by_standard_selectors(soup.std, cur, visited)
        s3 == _find_by_text(soup.text, cur, visited)
    IN  IF s1 # NoUrl THEN s1
        ELSE IF s2 # NoUrl THEN s2
        ELSE IF s3 # NoUrl THEN s3
        ELSE _find_by_url_pattern(cur, visited)

\* get_next_page_url with the cap test off by one (> for >=)
GetNextPageUrlCapOffByOne(soup, cur, visited, page, maxp, custom) ==
    LET v2 == visited \cup {cur}
        p2 == page + 1
    IN  [url     |-> IF p2 > maxp THEN NoUrl
                     ELSE NextByStrategies(soup, cur, v2, custom),
         visited |-> v2,
         page    |-> p2]

\* get_next_page_url as a function of the handler state:
\* [url, visited, page] = returned URL and the handler state afterwards
get_next_page_url(soup, cur, visited, page, maxp, custom) ==
    LET v2 == visited \cup {cur}
        p2 == page + 1
    IN  [url     |-> IF p2 >= maxp THEN NoUrl
                     ELSE NextByStrategies(soup, cur, v2, custom),
         visited |-> v2,
         page    |-> p2]

-----------------------------------------------------------------------------
(* Inputs of the pagination handler *)

L(q)  == MkUrl("/list", <<>>, q)
U1 == L(<< <<"page", IntVal(1)>> >>)
U2 == L(<< <<"page", IntVal(2)>> >>)
UPath == MkUrl("/cat", <<1>>, <<>>)
UOff  == L(<< <<"q", RawVal>>, <<"start", IntVal(0)>> >>)
UPlain == L(<<>>)

PagUrls == {U1, U2, UPath, UOff, UPlain}

PagHrefs == {AbsHref(U1), AbsHref(U2), QueryHref(<< <<"page", IntVal(2)>> >>),
             HashHref}

RECURSIVE SeqsUpTo(_, _)
SeqsUpTo(S, n) ==
    IF n = 0 THEN {<<>>}
    ELSE LET shorter == SeqsUpTo(S, n - 1)
         IN  shorter \cup {Append(s, x) : s \in {t \in shorter : Len(t) = n - 1}, x \in S}

MkSoup(c, s, t) == [custom |-> c, std |-> s, text |-> t]

PagSoups ==
    {MkSoup(c, s, t) : c \in {Absent, NoHref, AbsHref(U2)},
                       s \in SeqsUpTo(PagHrefs \cup {NoHref}, MaxStdLinks),
                       t \in SeqsUpTo({AbsHref(U1), AbsHref(U2), HashHref, EmptyHref}, MaxTextLinks)}

-----------------------------------------------------------------------------
(* Raw records given to the cleaner *)

RawA == RawProduct(<<"N", "e", "w", "!", " ", "T", "v">>, <<"$", "5">>, <<"i", "n", " ", "s", "t", "o", "c", "k">>, <<"h", "t", "t", "p", ":", "/", "/", "a", "/", "1", "?", "u", "t", "m", "_", "s", "=", "1">>, None)
RawB == RawProduct(<<"t", "v">>, <<"$", "5", " ">>, None, None, <<"/", "/", "i", "/", "b", ".", "p", "n", "g">>)
RawC == RawProduct(<<"T", "V">>, <<"6", ",", "5", "0", " ", "€">>, <<"s", "o", "l", "d", " ", "o", "u", "t">>, None, None)
RawD == RawProduct(<<"a">>, <<"$", "5">>, <<"s", "o", "l", "d", " ", "o", "u", "t">>, None, None)
RawE == RawProduct(<<"T", "v">>, None, <<"f", "e", "w", " ", "l", "e", "f", "t">>, <<"/", "r", "e", "l">>, None)
RawF == RawProduct(NonStr, <<"$", "5">>, None, None, None)
RawG == RawProduct(<<" ", "t", "v", " ", "-">>, <<"5", " ", "$">>, <<"U", "n", "a", "v", "a", "i", "l", "a", "b", "l", "e">>, None, None)
RawH == RawProduct(<<"N", "e", "w", "!", " ", "S", "a", "l", "e", ":", " ", "T", "v">>, <<"5", " ", "1", "0">>, <<"I", "n", " ", "S", "t", "o", "c", "k">>, None, None)

RawI == RawProduct(<<"R", "a", "d", "i", "o">>, <<"$", "7">>, None, <<"h", "t", "t", "p", ":", "/", "/", "a", "/", "1", "?", "u", "t", "m", "_", "s", "=", "1", "&", "x", "=", "1">>, None)

RawRecords == {RawA, RawB, RawC, RawD, RawE, RawF, RawG, RawH, RawI}

CleanInputs == SeqsUpTo(RawRecords, MaxRecords)

\* no clean() call in progress
CleanIdle ==
    /\ cleanInput = <<>>
    /\ cleanOutput = <<>>
    /\ cleanDone = FALSE

-----------------------------------------------------------------------------
(* ProductData validation (_validate_products) *)

\* ProductData.validate_url (mode="before")
validate_url(v) ==
    IF v = None \/ Strip(v) = <<>> THEN None
    ELSE LET s == Strip(v)
             t == IF StartsWith(s, <<"/", "/">>) THEN <<"h", "t", "t", "p", "s", ":">> \o s ELSE s
         IN  IF StartsWith(t, <<"h", "t", "t", "p", ":", "/", "/">>) \/ StartsWith(t, <<"h", "t", "t", "p", "s", ":", "/", "/">>)
             THEN t ELSE None

\* ProductData.normalize_availability (after str_strip_whitespace)
normalize_availability(v) ==
    LET s == Strip(v)
        v_lower == Strip(Lower(s))
    IN  IF AnyIn(v_lower, << <<"i", "n", " ", "s", "t", "o", "c", "k">>, <<"i", "n", "-", "s", "t", "o", "c", "k">>, <<"a", "v", "a", "i", "l", "a", "b", "l", "e">> >>)
        THEN <<"I", "n", " ", "S", "t", "o", "c", "k">>
        ELSE IF AnyIn(v_lower, OutStockWords) THEN <<"O", "u", "t", " ", "o", "f", " ", "S", "t", "o", "c", "k">>
        ELSE IF AnyIn(v_lower, PreOrderWords) THEN <<"P", "r", "e", "-", "O", "r", "d", "e", "r">>
        ELSE IF AnyIn(v_lower, LimitedWords) THEN <<"L", "i", "m", "i", "t", "e", "d", " ", "S", "t", "o", "c", "k">>
        ELSE IF s # <<>> THEN s ELSE <<"U", "n", "k", "n", "o", "w", "n">>

\* ProductData.clean_name: " ".join(v.split())
clean_name(v) == Strip(CollapseWs(v))

\* ProductData(...) raises a ValidationError for the record
ValidationFails(p) ==
    \/ ~IsStr(p.name) \/ Strip(p.name) = <<>>       \* name: str, min_length=1
    \/ p.price = NonStr                              \* price: Optional[str]
    \/ ~IsStr(p.availability)                        \* availability: str
    \/ p.product_url = NonStr \/ p.image_url = NonStr

\* one step of the loop of _validate_products: the validated dump, or the
\* record itself when validation raises
ValidateOne(p) ==
    IF ValidationFails(p) THEN p
    ELSE RawProduct(clean_name(p.name),
                    IF p.price = None THEN None ELSE Strip(p.price),
                    normalize_availability(p.availability),
                    validate_url(p.product_url),
                    validate_url(p.image_url))

\* ProductScrapingAgent._validate_products
_validate_products(ps) == [i \in 1..Len(ps) |-> ValidateOne(ps[i])]

\* the records of the DataFrame scrape() returns for all_products
\* (agent.py:97-99)
ScrapeOutput(all) == clean(_validate_products(all))

-----------------------------------------------------------------------------
(* RateLimiter *)

\* RateLimiter.report_success
report_success(errors) == IF errors - 1 > 0 THEN errors - 1 ELSE 0

\* RateLimiter.report_error
report_error(errors) == errors + 1

\* RateLimiter.should_retry
should_retry(errors, max_retries) == errors < max_retries

-----------------------------------------------------------------------------
(* extract_products_with_openai (openai_extractor.py) *)

\* a or b
Or(a, b) == IF Truthy(a) THEN a ELSE b

\* s[:n]
Take(s, n) == SubSeq(s, 1, IF n < Len(s) THEN n ELSE Len(s))

MaxAvailabilityLen == 50

\* the record extract_products_with_openai builds from one object of the
\* oracle's array
OracleRecord(obj) ==
    [name |-> Or(obj.name, <<>>), price |-> obj.price,
     availability |-> Take(Strip(Or(obj.availability, <<"U", "n", "k", "n", "o", "w", "n">>)),
                           MaxAvailabilityLen),
     product_url |-> obj.product_url, image_url |-> obj.image_url]

\* extract_products_with_openai on a response of the oracle: resp is
\* "array" (a JSON array of the objects objs), "not_json", "not_array" (a
\* JSON value that is no list) or "raise" (the request raises); raised
\* tells whether the call raises
extract_products_with_openai(resp, objs) ==
    [raised   |-> resp = "raise",
     products |-> IF resp = "array"
                  THEN [i \in 1..Len(objs) |-> OracleRecord(objs[i])]
                  ELSE <<>>]

-----------------------------------------------------------------------------
(* Pages and sites seen by the agent *)

\* str(n)
RECURSIVE DecStr(_)
DecStr(n) ==
    IF n < 10 THEN <<DigitChars[n + 1]>>
    ELSE DecStr(n \div 10) \o <<DigitChars[(n % 10) + 1]>>

\* the i-th listing item of page p of a site
Item(p, i) ==
    RawProduct(<<"I", "t", "e", "m", " ">> \o DecStr(p) \o <<"-">> \o DecStr(i),
               <<"$">> \o DecStr(i) \o <<".", "9", "9">>,
               <<"I", "n", " ", "s", "t", "o", "c", "k">>,
               <<"h", "t", "t", "p", ":", "/", "/", "s", "h", "o", "p", "/", "i", "t", "e", "m", "/">> \o DecStr(p) \o <<"/">> \o DecStr(i),
               None)

\* a fetched page: its pagination links, what the container locator finds
\* ("none", "fallback": only _fallback_product_search finds containers,
\* "standard": find_product_containers finds them), what parse_all
\* extracts from the containers, and what the oracle answers (the kind
\* of its response and the objects of its array; "-": it is not asked)
MkPage(std, containers, parsed, oracle_resp, oracle) ==
    [custom |-> Absent, std |-> std, text |-> <<>>,
     containers |-> containers, parsed |-> parsed,
     oracle_resp |-> oracle_resp, oracle |-> oracle]

NoPage == MkPage(<<>>, "None", <<>>, "-", <<>>)      \* html is None

\* the link sets of the pages of an arbitrary site
AgentLinks == {<<>>, <<AbsHref(U2)>>}

\* what page n of an arbitrary site holds for the rule-based extractor:
\* <<containers, parsed>>
RuleContents(n) ==
    {<<"none", <<>>>>, <<"fallback", <<Item(n, 1), RawB>>>>,
     <<"standard", <<>>>>, <<"standard", <<Item(n, 1), RawB>>>>}

\* what the oracle answers for page n: <<oracle_resp, oracle>>
OracleContents(n) ==
    {<<"array", <<>>>>, <<"array", <<Item(n, 1), RawB>>>>,
     <<"not_json", <<>>>>, <<"not_array", <<>>>>, <<"raise", <<>>>>}

\* what a page the oracle is asked about holds for the rule-based
\* extractor
OracleRuleContents(n) ==
    {<<"none", <<>>>>, <<"standard", <<Item(n, 1), RawB>>>>}

\* pages of an arbitrary site, as page number n of a run sees them
AgentPages(n, use_openai) ==
    IF use_openai
    THEN {MkPage(l, r[1], r[2], c[1], c[2]) :
             l \in AgentLinks, c \in OracleContents(n),
             r \in OracleRuleContents(n)}
    ELSE {MkPage(l, c[1], c[2], "-", <<>>) :
             l \in AgentLinks, c \in RuleContents(n)}

\* the fixture site: two pages of 20 items addressed by ?page=N, the
\* first one linking to the second, the second one without a next link
FixturePage(p) ==
    MkPage(IF p = 1 THEN << QueryHref(<< <<"page", IntVal(2)>> >>) >> ELSE <<>>,
           "standard", [i \in 1..20 |-> Item(p, i)], "-", <<>>)

\* a page without listing
EmptyPage == MkPage(<<>>, "none", <<>>, "-", <<>>)

FixtureMaxPages == 5

\* outcome of one fetch_page call
Outcome(kind, page) == [kind |-> kind, page |-> page]

\* what fetch_page(url) can do: return html ("ok"), return None ("none":
\* connection error, oversized response, engine error) or raise a
\* FetchError ("raise": TimeoutError, HTTPError, BlockedError)
FetchOutcomes(which, url, n, use_openai) ==
    IF which = "fixture"
    THEN IF url = U1 THEN {Outcome("ok", FixturePage(1))}
         ELSE IF url = U2 THEN {Outcome("ok", FixturePage(2))}
         ELSE {Outcome("ok", EmptyPage), Outcome("none", NoPage),
               Outcome("raise", NoPage)}
    ELSE {Outcome("ok", pg) : pg \in AgentPages(n, use_openai)}
         \cup {Outcome("none", NoPage), Outcome("raise", NoPage)}

-----------------------------------------------------------------------------
(* States in which a component is not in use *)

\* no analyzer call in progress
LandIdle ==
    /\ lpc = "idle"
    /\ pickArgs = [ranked |-> <<>>, n |-> 0, min_dist |-> 0]
    /\ pickResult = <<>>
    /\ ranked_all = <<>>
    /\ deterministic_colors = <<>>
    /\ data = [scope |-> <<>>, out_of_scope |-> <<>>,
               products_and_services |-> <<>>, brand_colors |-> <<>>]
    /\ evidence = [nav_items |-> <<>>]
    /\ profile = [brand_colors |-> <<>>, scope |-> <<>>, out_of_scope |-> <<>>]

\* no locator or parser arguments
NoLocArgs ==
    [soup |-> [custom |-> <<>>, patterns |-> <<>>, heuristic |-> <<>>],
     custom |-> FALSE]

NoParseArgs == [mode |-> "-"]

\* parse_product returned None
NoParsed == [name |-> None, price |-> None, availability |-> None,
             product_url |-> None, image_url |-> None]

\* no extraction in progress
ParseIdle ==
    /\ ppc = "idle"
    /\ locArgs = NoLocArgs
    /\ located = <<>>
    /\ parseArgs = NoParseArgs
    /\ extracted = NoParsed
    /\ validatedOne = NoParsed
    /\ cleanedOne = <<>>

\* a limiter nobody has called
LimIdle ==
    /\ rlpc = "idle"
    /\ rate_limiter = [config |-> [min_delay |-> 0, max_delay |-> 0,
                                    max_retries |-> 1, rate_fields |-> FALSE,
                                    requests_per_second |-> 1,
                                    backoff_factor |-> 1],
                        _consecutive_errors |-> 0]
    /\ crawl_delay = 0
    /\ delay = -1
    /\ rlRuns = 0
    /\ rlFetches = 0

\* no single pagination call under study
StratIdle ==
    /\ spc = "idle"
    /\ nextArgs = <<>>
    /\ nextUrl = NoUrl

\* no server running
ServerIdle ==
    /\ landing_config = [rate_limit_enabled |-> FALSE, rate_limit_per_minute |-> 0]
    /\ clock = 0
    /\ _rate_limit_store = <<>>
    /\ threads = <<>>
    /\ admitted = <<>>
    /\ ticks = 0
    /\ requests = 0

MoreIdle == LimIdle /\ StratIdle /\ ServerIdle

\* the components outside pagination, cleaner and agent are not in use
RestIdle == LandIdle /\ ParseIdle /\ MoreIdle

\* no handler in use
PagIdle ==
    /\ visited_urls = {}
    /\ current_page = 0
    /\ max_pages = 1
    /\ custom_next_selector = FALSE
    /\ pagResult = NoUrl
    /\ pagCalls = 0
    /\ pagReturned = 0
    /\ pagPassed = {}

\* an agent that is never used
AgentIdle ==
    /\ config = [max_pages |-> 1, max_retries |-> 1, respect_robots_txt |-> FALSE,
                 use_openai |-> FALSE, openai_api_key |-> FALSE,
                 rate_fields |-> FALSE]
    /\ site = "any"
    /\ robots_disallow = {}
    /\ _shutdown_requested = FALSE
    /\ _consecutive_errors = 0
    /\ _scraper = "None"
    /\ handlers = [SIGINT |-> "default_int_handler", SIGTERM |-> "SIG_DFL"]
    /\ _original_sigint = "None"
    /\ _original_sigterm = "None"
    /\ pc = "idle"
    /\ current_url = NoUrl
    /\ page_num = 0
    /\ consecutive_empty = 0
    /\ all_products = <<>>
    /\ html = NoPage
    /\ result = <<>>
    /\ runs = 0
    /\ fetched = <<>>
    /\ stop = "none"
    /\ lastFetch = [first |-> "-", attempts |-> 0, aborted |-> FALSE]
    /\ emptyStreak = 0
    /\ flagIter = -1
    /\ startSnap = [flag |-> FALSE, errors |-> 0]

-----------------------------------------------------------------------------
(* The pagination handler on its own *)

PagStart ==
    /\ visited_urls = {}
    /\ current_page = 0
    /\ max_pages \in 1..MaxPagesBound
    /\ custom_next_selector \in BOOLEAN
    /\ pagResult = NoUrl
    /\ pagCalls = 0
    /\ pagReturned = 0
    /\ pagPassed = {}

PagInit ==
    /\ PagStart
    /\ CleanIdle
    /\ AgentIdle
    /\ RestIdle

\* PaginationHandler.get_next_page_url(soup, current_url)
GetNextPageUrl ==
    /\ pagCalls < MaxCalls
    /\ \E soup \in PagSoups, cur \in (PagUrls \cup {pagResult}) \ {NoUrl} :
          LET r == get_next_page_url(soup, cur, visited_urls, current_page,
                                     max_pages, custom_next_selector)
          IN  /\ visited_urls' = r.visited
              /\ current_page' = r.page
              /\ pagResult' = r.url
              /\ pagCalls' = pagCalls + 1
              /\ pagReturned' = pagReturned + (IF r.url # NoUrl THEN 1 ELSE 0)
              /\ pagPassed' = pagPassed \cup {cur}
    /\ UNCHANGED <<max_pages, custom_next_selector>>

\* PaginationHandler.reset()
PagReset ==
    /\ pagCalls > 0
    /\ visited_urls' = {}
    /\ current_page' = 0
    /\ pagResult' = NoUrl
    /\ pagCalls' = 0
    /\ pagReturned' = 0
    /\ pagPassed' = {}
    /\ UNCHANGED <<max_pages, custom_next_selector>>

PagNext ==
    (GetNextPageUrl \/ PagReset) /\ UNCHANGED <<cleanVars, agentVars, restVars>>

SpecPag == PagInit /\ [][PagNext]_vars

\* C1: a URL returned by get_next_page_url is not in visited_urls at the
\* time of return: it is neither the current URL nor any URL passed as
\* current_url to an earlier call of the same handler.
C1_NextNeverVisited ==
    pagResult # NoUrl =>
        /\ pagResult \notin visited_urls
        /\ pagResult \notin pagPassed

\* a URL is returned by the second call of a handler, which has visited
\* two URLs by then
C1_Witness ==
    /\ pagResult # NoUrl
    /\ pagCalls = 2
    /\ Cardinality(visited_urls) = 2

\* C2: the page index grows by one per call, a call whose incremented
\* index reaches max_pages returns none, and a handler with max_pages = N
\* returns at most N-1 next URLs.
C2_PageCap ==
    /\ current_page = pagCalls
    /\ (pagCalls > 0 /\ current_page >= max_pages => pagResult = NoUrl)
    /\ pagReturned <= max_pages - 1

\* max_pages = 3: two URLs were returned and later calls returned none
C2_Witness ==
    /\ max_pages = 3
    /\ pagReturned = 2
    /\ pagCalls >= 4
    /\ pagResult = NoUrl

-----------------------------------------------------------------------------
(* The data cleaner on its own *)

CleanInit ==
    /\ cleanInput \in CleanInputs
    /\ cleanOutput = <<>>
    /\ cleanDone = FALSE
    /\ PagIdle
    /\ AgentIdle
    /\ RestIdle

\* DataCleaner.clean(products)
Clean ==
    /\ ~cleanDone
    /\ cleanOutput' = clean(cleanInput)
    /\ cleanDone' = TRUE
    /\ UNCHANGED <<cleanInput, pagVars, agentVars>>

\* the cleaner is given another list
CleanNewInput ==
    /\ cleanDone
    /\ cleanInput' \in CleanInputs
    /\ cleanOutput' = <<>>
    /\ cleanDone' = FALSE
    /\ UNCHANGED <<pagVars, agentVars>>

CleanNext == (Clean \/ CleanNewInput) /\ UNCHANGED restVars

SpecClean == CleanInit /\ [][CleanNext]_vars

\* positions of CleanEach(raw) that hold the first record of their key
FirstOfKey(c) ==
    {i \in 1..Len(c) : \A j \in 1..(i - 1) : DedupKey(c[j]) # DedupKey(c[i])}

\* the k-th smallest element of a set of positions
KthOf(I, k) == CHOOSE i \in I : Cardinality({j \in I : j <= i}) = k

\* C10: clean returns a list without two records of the same key
\* (lowercased trimmed name, price); the record kept for a key is the
\* first one of that key in input order, and the kept records are in
\* input order.
C10_DedupFirstWins ==
    cleanDone =>
        LET c == CleanEach(cleanInput)
            I == FirstOfKey(c)
        IN  /\ \A i, j \in 1..Len(cleanOutput) :
                   i # j => DedupKey(cleanOutput[i]) # DedupKey(cleanOutput[j])
            /\ Len(cleanOutput) = Cardinality(I)
            /\ \A k \in 1..Len(cleanOutput) : cleanOutput[k] = c[KthOf(I, k)]

\* C11: cleaning is a fixed point: cleaning the list clean returned gives
\* that list again, field by field.
C11_CleanFixedPoint ==
    cleanDone => clean(cleanOutput) = cleanOutput

\* a later record with the key of an earlier, different record was dropped
\* and two records were kept
C10_Witness ==
    /\ cleanDone
    /\ Len(cleanOutput) >= 2
    /\ LET c == CleanEach(cleanInput)
       IN  \E i, j \in 1..Len(c) :
               i < j /\ DedupKey(c[i]) = DedupKey(c[j]) /\ c[i] # c[j]

-----------------------------------------------------------------------------
(* ProductScrapingAgent *)

\* signal.SIG_DFL and None are falsy, a Python handler is truthy
HandlerTruthy(h) == h \notin {"SIG_DFL", "None"}

\* _restore_signal_handlers: the handlers in place after it, from the
\* saved originals oi, ot and the handlers cur in place before it
RestoreTo(oi, ot, cur) ==
    [SIGINT  |-> IF HandlerTruthy(oi) THEN oi ELSE cur.SIGINT,
     SIGTERM |-> IF HandlerTruthy(ot) THEN ot ELSE cur.SIGTERM]

\* _install_signal_handlers: the agent's handler for both signals
InstalledHandlers == [SIGINT |-> "agent", SIGTERM |-> "agent"]

\* RobotsChecker.can_fetch
can_fetch(url) == url \notin robots_disallow

\* the configurations of an agent: ScraperConfig fields read by the page
\* loop; rate_fields tells whether config.rate_limit carries the
\* attributes requests_per_second and backoff_factor, openai_api_key
\* whether the key is set (it is only read when use_openai is set)
Configs ==
    {c \in [max_pages : 1..MaxPagesBound, max_retries : 1..MaxRetriesBound,
            respect_robots_txt : BOOLEAN, use_openai : BOOLEAN,
            openai_api_key : BOOLEAN, rate_fields : BOOLEAN] :
        c.openai_api_key => c.use_openai}

\* use_openai of _scrape_all_pages (agent.py:155)
UseOpenai == config.use_openai /\ config.openai_api_key

\* ProductScrapingAgent.__init__
AgentInit ==
    /\ \/ /\ site = "any"
          /\ config \in Configs
          /\ robots_disallow \in {{}, {U2}}
       \/ /\ site = "fixture"
          /\ config = [max_pages |-> FixtureMaxPages, max_retries |-> MaxRetriesBound,
                       respect_robots_txt |-> FALSE, use_openai |-> FALSE,
                       openai_api_key |-> FALSE,
                       rate_fields |-> TRUE]
          /\ robots_disallow = {}
    /\ _shutdown_requested = FALSE
    /\ _consecutive_errors = 0
    /\ _scraper = "None"
    /\ handlers = [SIGINT |-> "default_int_handler", SIGTERM |-> "SIG_DFL"]
    /\ _original_sigint = "None"
    /\ _original_sigterm = "None"
    /\ pc = "idle"
    /\ current_url = NoUrl
    /\ page_num = 0
    /\ consecutive_empty = 0
    /\ all_products = <<>>
    /\ html = NoPage
    /\ result = <<>>
    /\ runs = 0
    /\ fetched = <<>>
    /\ stop = "none"
    /\ lastFetch = [first |-> "-", attempts |-> 0, aborted |-> FALSE]
    /\ emptyStreak = 0
    /\ flagIter = -1
    /\ startSnap = [flag |-> FALSE, errors |-> 0]
    /\ PagIdle
    /\ CleanIdle
    /\ RestIdle

\* a finally clause that does not close the engine
FinallyEngineLeftOpen(df, why) ==
    /\ result' = df
    /\ stop' = why
    /\ pc' = "idle"
    /\ runs' = runs + 1
    /\ _scraper' = _scraper
    /\ handlers' = RestoreTo(_original_sigint, _original_sigterm, handlers)

\* scrape() leaves through its finally clause with the DataFrame df
Finally(df, why) ==
    /\ result' = df
    /\ stop' = why
    /\ pc' = "idle"
    /\ runs' = runs + 1
    /\ _scraper' = "None"
    /\ handlers' = RestoreTo(_original_sigint, _original_sigterm, handlers)

\* scrape(url) up to the first test of the while loop: signal handlers,
\* robots check of the start URL, engine set-up, and the locals of
\* _scrape_all_pages
StartScrape ==
    /\ pc = "idle"
    /\ runs < MaxRuns
    /\ \E url \in (IF site = "fixture" THEN {U1} ELSE {U1, UPlain}) :
          /\ _original_sigint' = handlers.SIGINT
          /\ _original_sigterm' = handlers.SIGTERM
          /\ startSnap' = [flag |-> _shutdown_requested, errors |-> _consecutive_errors]
          /\ fetched' = <<>>
          /\ all_products' = <<>>
          /\ page_num' = 0
          /\ consecutive_empty' = 0
          /\ emptyStreak' = 0
          /\ flagIter' = -1
          /\ lastFetch' = [first |-> "-", attempts |-> 0, aborted |-> FALSE]
          /\ html' = NoPage
          /\ visited_urls' = {}
          /\ current_page' = 0
          /\ max_pages' = config.max_pages
          /\ custom_next_selector' = FALSE
          /\ pagResult' = NoUrl
          /\ pagCalls' = 0
          /\ pagReturned' = 0
          /\ pagPassed' = {}
          /\ IF config.respect_robots_txt /\ ~can_fetch(url)
             THEN \* robots.txt disallows this URL
                  /\ result' = <<>>
                  /\ stop' = "robots_start"
                  /\ pc' = "idle"
                  /\ runs' = runs + 1
                  /\ _scraper' = "None"
                  /\ handlers' = RestoreTo(handlers.SIGINT, handlers.SIGTERM,
                                           InstalledHandlers)
                  /\ current_url' = NoUrl
             ELSE IF ~config.rate_fields
             THEN \* StaticScraper._create_session raises AttributeError
                  /\ result' = <<>>
                  /\ stop' = "exception"
                  /\ pc' = "idle"
                  /\ runs' = runs + 1
                  /\ _scraper' = "None"
                  /\ handlers' = RestoreTo(handlers.SIGINT, handlers.SIGTERM,
                                           InstalledHandlers)
                  /\ current_url' = NoUrl
             ELSE /\ result' = <<>>
                  /\ stop' = "none"
                  /\ pc' = "top"
                  /\ runs' = runs
                  /\ _scraper' = "open"
                  /\ handlers' = InstalledHandlers
                  /\ current_url' = url
    /\ UNCHANGED <<config, site, robots_disallow, _shutdown_requested,
                   _consecutive_errors, cleanVars>>

\* the test of the while loop and the first statements of its body
LoopTop ==
    /\ pc = "top"
    /\ IF current_url # NoUrl /\ ~_shutdown_requested
       THEN /\ page_num' = page_num + 1
            /\ pc' = "fetch"
            /\ stop' = stop
       ELSE /\ page_num' = page_num
            /\ pc' = "return"
            /\ stop' = IF current_url # NoUrl THEN "cancel"
                       ELSE IF current_page >= max_pages THEN "cap"
                       ELSE "no_next"
    /\ UNCHANGED <<config, site, robots_disallow, _shutdown_requested,
                   _consecutive_errors, _scraper, handlers, _original_sigint,
                   _original_sigterm, current_url, consecutive_empty,
                   all_products, html, result, runs, fetched, lastFetch,
                   emptyStreak, flagIter, startSnap, pagVars, cleanVars>>

\* the locals and fields a fetch step leaves alone
FetchFrame ==
    UNCHANGED <<config, site, robots_disallow, _shutdown_requested,
                _original_sigint, _original_sigterm, current_url, page_num,
                consecutive_empty, all_products, emptyStreak, flagIter,
                startSnap, pagVars, cleanVars>>

\* the loop goes on to extraction with the fetched page
FetchOk(page, errors) ==
    /\ html' = page
    /\ _consecutive_errors' = report_success(errors)
    /\ pc' = "process"
    /\ UNCHANGED <<result, stop, runs, _scraper, handlers>>

\* "Fetch failed, stopping": break
FetchBreak(errors) ==
    /\ html' = NoPage
    /\ _consecutive_errors' = errors
    /\ pc' = "return"
    /\ stop' = "fetch_failed"
    /\ UNCHANGED <<result, runs, _scraper, handlers>>

\* fetch_page raises a FetchError: it leaves _scrape_all_pages and is
\* caught by scrape(), which returns an empty DataFrame
FetchRaise(errors) ==
    /\ html' = NoPage
    /\ _consecutive_errors' = errors
    /\ Finally(<<>>, "exception")

\* rate_limiter.wait(), fetch_page(current_url), and on an empty result
\* report_error and the second fetch (agent.py:174-185)
FetchPage ==
    /\ pc = "fetch"
    /\ \E o1 \in FetchOutcomes(site, current_url, page_num, UseOpenai) :
          \/ /\ o1.kind = "ok"
             /\ FetchOk(o1.page, _consecutive_errors)
             /\ fetched' = Append(fetched, current_url)
             /\ lastFetch' = [first |-> "ok", attempts |-> 1, aborted |-> FALSE]
          \/ /\ o1.kind = "raise"
             /\ FetchRaise(_consecutive_errors)
             /\ fetched' = Append(fetched, current_url)
             /\ lastFetch' = [first |-> "raise", attempts |-> 1, aborted |-> TRUE]
          \/ /\ o1.kind = "none"
             /\ ~should_retry(report_error(_consecutive_errors), config.max_retries)
             /\ FetchBreak(report_error(_consecutive_errors))
             /\ fetched' = Append(fetched, current_url)
             /\ lastFetch' = [first |-> "none", attempts |-> 1, aborted |-> TRUE]
          \/ /\ o1.kind = "none"
             /\ should_retry(report_error(_consecutive_errors), config.max_retries)
             /\ fetched' = fetched \o <<current_url, current_url>>
             /\ \E o2 \in FetchOutcomes(site, current_url, page_num, UseOpenai) :
                   \/ /\ o2.kind = "ok"
                      /\ FetchOk(o2.page, report_error(_consecutive_errors))
                      /\ lastFetch' = [first |-> "none", attempts |-> 2, aborted |-> FALSE]
                   \/ /\ o2.kind = "none"
                      /\ FetchBreak(report_error(_consecutive_errors))
                      /\ lastFetch' = [first |-> "none", attempts |-> 2, aborted |-> TRUE]
                   \/ /\ o2.kind = "raise"
                      /\ FetchRaise(report_error(_consecutive_errors))
                      /\ lastFetch' = [first |-> "none", attempts |-> 2, aborted |-> TRUE]
    /\ FetchFrame

\* the handler's fields after a get_next_page_url call with result r
PagCalled(r, cur) ==
    /\ visited_urls' = r.visited
    /\ current_page' = r.page
    /\ pagResult' = r.url
    /\ pagCalls' = pagCalls + 1
    /\ pagReturned' = pagReturned + (IF r.url # NoUrl THEN 1 ELSE 0)
    /\ pagPassed' = pagPassed \cup {cur}
    /\ UNCHANGED <<max_pages, custom_next_selector>>

\* extraction, the empty-page count and the choice of the next URL
\* (agent.py:187-233)
ProcessPage ==
    /\ pc = "process"
    /\ LET rule == ~UseOpenai
           found == \/ html.containers = "standard"
                    \/ html.containers = "fallback" /\ page_num = 1
           noContainers == rule /\ ~found
           page_products ==
               IF rule THEN html.parsed
               ELSE extract_products_with_openai(html.oracle_resp,
                                                 html.oracle).products
           noProducts == noContainers \/ page_products = <<>>
           ce == IF noContainers THEN consecutive_empty + 1
                 ELSE IF page_products = <<>>
                 THEN (IF rule THEN 0 ELSE consecutive_empty) + 1
                 ELSE 0
           r == get_next_page_url(html, current_url, visited_urls,
                                  current_page, max_pages, custom_next_selector)
           disallowed == /\ ~noContainers
                         /\ config.respect_robots_txt
                         /\ r.url # NoUrl
                         /\ ~can_fetch(r.url)
       IN  /\ consecutive_empty' = ce
           /\ emptyStreak' = IF noProducts THEN emptyStreak + 1 ELSE 0
           /\ all_products' = IF noProducts THEN all_products
                              ELSE all_products \o page_products
           /\ IF ce >= 2
              THEN /\ pc' = "return"
                   /\ stop' = "empty"
                   /\ UNCHANGED <<current_url, pagVars>>
              ELSE /\ PagCalled(r, current_url)
                   /\ IF disallowed
                      THEN /\ pc' = "return"
                           /\ stop' = "robots"
                           /\ UNCHANGED current_url
                      ELSE /\ pc' = "top"
                           /\ stop' = stop
                           /\ current_url' = r.url
    /\ UNCHANGED <<config, site, robots_disallow, _shutdown_requested,
                   _consecutive_errors, _scraper, handlers, _original_sigint,
                   _original_sigterm, page_num, html, result, runs, fetched,
                   lastFetch, flagIter, startSnap, cleanVars>>

\* _scrape_all_pages returns; scrape() validates, cleans and returns the
\* DataFrame (agent.py:95-109, 120-122)
ReturnResult ==
    /\ pc = "return"
    /\ result' = ScrapeOutput(all_products)
    /\ pc' = "idle"
    /\ runs' = runs + 1
    /\ _scraper' = "None"
    /\ handlers' = RestoreTo(_original_sigint, _original_sigterm, handlers)
    /\ UNCHANGED <<config, site, robots_disallow, _shutdown_requested,
                   _consecutive_errors, _original_sigint, _original_sigterm,
                   current_url, page_num, consecutive_empty, all_products,
                   html, fetched, stop, lastFetch, emptyStreak, flagIter,
                   startSnap, pagVars, cleanVars>>

\* SIGINT or SIGTERM arrives while the agent's handler is installed:
\* _handle_shutdown
Signal ==
    /\ \E s \in {"SIGINT", "SIGTERM"} : handlers[s] = "agent"
    /\ ~_shutdown_requested
    /\ _shutdown_requested' = TRUE
    /\ flagIter' = IF pc = "idle" THEN flagIter ELSE page_num
    /\ UNCHANGED <<config, site, robots_disallow, _consecutive_errors,
                   _scraper, handlers, _original_sigint, _original_sigterm,
                   pc, current_url, page_num, consecutive_empty, all_products,
                   html, result, runs, fetched, stop, lastFetch, emptyStreak,
                   startSnap, pagVars, cleanVars>>

Next ==
    (StartScrape \/ LoopTop \/ FetchPage \/ ProcessPage \/ ReturnResult \/ Signal)
    /\ UNCHANGED restVars

Spec == AgentInit /\ [][Next]_vars

\* the positions of a scrape() call
Positions == {"idle", "top", "fetch", "process", "return"}

\* a step of the scrape() call in progress: LoopTop, FetchPage,
\* ProcessPage and ReturnResult are the steps of Next that move pc, and
\* one of them is enabled whenever a call is in progress
RunProgress == pc # "idle" /\ pc' \in Positions \ {pc}

\* the thread that called scrape() keeps executing its statements
SpecLive == Spec /\ WF_pc(RunProgress)

-----------------------------------------------------------------------------
(* Properties of the page loop *)

\* a scrape() call has returned and none is in progress
RunOver == pc = "idle" /\ runs >= 1

\* the run was not cancelled: the flag was clear when it started and no
\* signal set it
Uncancelled == ~startSnap.flag /\ ~_shutdown_requested

\* C3: on the fixture site (2 pages of 20 items, ?page=N, no next link on
\* page 2) a rule-based run with max_pages = 5 fetches exactly the 2
\* pages, returns 40 records and stops because no next URL is found.
C3_FixtureRunStopsAfterPage2 ==
    (site = "fixture" /\ RunOver /\ Uncancelled) =>
        /\ fetched = <<U1, U2>>
        /\ Len(result) = 40
        /\ stop = "no_next"

\* C4: when the run stops because the fetch of a page k > 1 fails (the
\* engine returns nothing or raises), scrape() returns the cleaned,
\* deduplicated products accumulated from the pages before it.
C4_ReturnsAccumulated ==
    (RunOver /\ stop \in {"fetch_failed", "exception"} /\ page_num > 1) =>
        result = ScrapeOutput(all_products)

\* C5: whenever a page fetch fails (empty result or FetchError) the loop
\* fetches the same URL exactly once more, and aborts only if that second
\* attempt fails too.
C5_RetriesOnce ==
    lastFetch.first \in {"none", "raise"} => lastFetch.attempts = 2

\* C6: the page loop stops after 2 consecutive pages that yield no
\* product, in both extraction modes, and a page with a product resets
\* the count.
C6_StopsAfterTwoEmpty ==
    /\ pc \in {"top", "fetch", "process"} => emptyStreak < 2
    /\ (pc # "idle" /\ emptyStreak = 0) => consecutive_empty = 0

\* C7: with respect_robots_txt enabled no URL that can_fetch refuses is
\* fetched in a run.
C7_RobotsRespected ==
    config.respect_robots_txt =>
        \A i \in 1..Len(fetched) : can_fetch(fetched[i])

\* C8: once a signal has set the shutdown flag during a run, the
\* iteration in progress completes, no further iteration starts, and the
\* run returns the products accumulated up to then.
C8_CooperativeCancel ==
    flagIter >= 0 =>
        /\ page_num = flagIter
        /\ RunOver => result = ScrapeOutput(all_products)

\* C9: at the start of every scrape() call the cancellation flag is
\* clear, the rate limiter's error count is 0 and the pagination state is
\* empty.
C9_NoStateAcrossRuns ==
    /\ ~startSnap.flag
    /\ startSnap.errors = 0
    /\ (pc = "top" /\ page_num = 0) => (visited_urls = {} /\ current_page = 0)


-----------------------------------------------------------------------------
(* landing.analyzer: brand colours *)

\* C27: after scrape() has returned, on any exit path, the SIGINT and
\* SIGTERM handlers are the ones that were installed before the call (the
\* default disposition included), and the agent's shutdown handler is not
\* installed for either signal.
C27_HandlersRestored ==
    RunOver =>
        /\ handlers = [SIGINT |-> _original_sigint, SIGTERM |-> _original_sigterm]
        /\ \A s \in {"SIGINT", "SIGTERM"} : handlers[s] # "agent"

\* the distinct URLs requested in the current run
DistinctFetched == {fetched[i] : i \in 1..Len(fetched)}

\* the loop endings the specification lists: no next URL, page cap, 2
\* consecutive empty pages, cancellation, fetch failure (fetch_page
\* returning nothing; a fetch that raises ends the run with "exception")
ListedEndings == {"no_next", "cap", "empty", "cancel", "fetch_failed"}

C23_ReturnsAndCloses ==
    /\ pc = "idle" => _scraper = "None"
    /\ RunOver => result \in {<<>>, ScrapeOutput(all_products)}

\* a run in which a fetch raised after products were accumulated, and a
\* run whose engine set-up raised
C23_Witness ==
    /\ RunOver
    /\ stop = "exception"
    /\ Len(fetched) >= 2
    /\ all_products # <<>>

\* RateLimitConfig() as config.py declares it: min_delay, max_delay and
\* max_retries only, neither requests_per_second nor backoff_factor
DefaultRateLimitConfig == ~config.rate_fields

\* C30: with the default rate-limit configuration a run on a valid URL
\* that robots.txt allows, and that is not cancelled, gets past engine
\* set-up and the first wait and fetches at least one page.
C30_DefaultConfigFetches ==
    (RunOver /\ DefaultRateLimitConfig /\ stop # "robots_start" /\ Uncancelled) =>
        Len(fetched) >= 1

HexDigits == <<"0", "1", "2", "3", "4", "5", "6", "7", "8", "9", "a", "b", "c", "d", "e", "f">>

\* int(c, 16) for one lower-case hexadecimal digit
HexVal(c) == (CHOOSE i \in 1..16 : HexDigits[i] = c) - 1

\* int(s, 16) for two digits
Int16(s) == 16 * HexVal(s[1]) + HexVal(s[2])

\* _hex_normalize
_hex_normalize(raw) ==
    LET c == Skip(Lower(raw), {"#"})
    IN  IF Len(c) = 3 THEN <<"#", c[1], c[1], c[2], c[2], c[3], c[3]>>
        ELSE IF Len(c) = 8 THEN <<"#">> \o SubSeq(c, 1, 6)
        ELSE IF Len(c) # 6 THEN <<>>
        ELSE <<"#">> \o c

\* _hex_to_rgb
_hex_to_rgb(hex_color) ==
    LET c == Skip(hex_color, {"#"})
    IN  <<Int16(SubSeq(c, 1, 2)), Int16(SubSeq(c, 3, 4)), Int16(SubSeq(c, 5, 6))>>

\* the radicand of _color_distance, with the blue channel left out
ColorDistanceNoBlue(a, b) ==
    LET x == _hex_to_rgb(a)
        y == _hex_to_rgb(b)
    IN  (x[1] - y[1]) * (x[1] - y[1]) + (x[2] - y[2]) * (x[2] - y[2])

\* the radicand of _color_distance: _color_distance(a, b) is its square root
_color_distance_squared(a, b) ==
    LET x == _hex_to_rgb(a)
        y == _hex_to_rgb(b)
    IN  (x[1] - y[1]) * (x[1] - y[1]) + (x[2] - y[2]) * (x[2] - y[2])
        + (x[3] - y[3]) * (x[3] - y[3])

\* _color_distance(a, b) >= d for a whole number d >= 0 (math.sqrt is
\* monotone and exact on squares)
FarApart(a, b, d) == _color_distance_squared(a, b) >= d * d

GENERIC_NEUTRALS ==
    {<<"f", "f", "f", "f", "f", "f">>, <<"0", "0", "0", "0", "0", "0">>, <<"f", "5", "f", "5", "f", "5">>, <<"f", "8", "f", "8", "f", "8">>, <<"f", "a", "f", "a", "f", "a">>, <<"e", "e", "e", "e", "e", "e">>,
     <<"e", "5", "e", "5", "e", "5">>, <<"d", "d", "d", "d", "d", "d">>, <<"c", "c", "c", "c", "c", "c">>, <<"f", "0", "f", "0", "f", "0">>, <<"e", "0", "e", "0", "e", "0">>, <<"d", "0", "d", "0", "d", "0">>,
     <<"3", "3", "3", "3", "3", "3">>, <<"1", "1", "1", "1", "1", "1">>, <<"2", "2", "2", "2", "2", "2">>, <<"4", "4", "4", "4", "4", "4">>, <<"5", "5", "5", "5", "5", "5">>, <<"6", "6", "6", "6", "6", "6">>,
     <<"7", "7", "7", "7", "7", "7">>, <<"8", "8", "8", "8", "8", "8">>, <<"9", "9", "9", "9", "9", "9">>, <<"a", "a", "a", "a", "a", "a">>, <<"b", "b", "b", "b", "b", "b">>}

Max3(a, b, c) == CHOOSE m \in {a, b, c} : \A x \in {a, b, c} : x <= m
Min3(a, b, c) == CHOOSE m \in {a, b, c} : \A x \in {a, b, c} : m <= x

\* _is_neutral
_is_neutral(hex_color) ==
    LET c == Skip(Lower(hex_color), {"#"})
    IN  IF c \in GENERIC_NEUTRALS THEN TRUE
        ELSE IF Len(c) # 6 THEN FALSE
        ELSE LET r == Int16(SubSeq(c, 1, 2))
                 g == Int16(SubSeq(c, 3, 4))
                 b == Int16(SubSeq(c, 5, 6))
             IN  Max3(r, g, b) - Min3(r, g, b) < 15

\* x in the list s
InSeq(x, s) == \E i \in 1..Len(s) : s[i] = x

\* first loop of _pick_top_diverse over the candidates that are left
RECURSIVE PickLoop(_, _, _, _)
PickLoop(cands, selected, n, min_dist) ==
    IF cands = <<>> \/ Len(selected) >= n THEN selected
    ELSE IF \A i \in 1..Len(selected) : FarApart(Head(cands), selected[i], min_dist)
         THEN PickLoop(Tail(cands), Append(selected, Head(cands)), n, min_dist)
         ELSE PickLoop(Tail(cands), selected, n, min_dist)

\* backfill loop of _pick_top_diverse over the candidates that are left
RECURSIVE BackfillLoop(_, _, _)
BackfillLoop(cands, selected, n) ==
    IF cands = <<>> THEN selected
    ELSE LET s2 == IF InSeq(Head(cands), selected) THEN selected
                   ELSE Append(selected, Head(cands))
         IN  IF Len(s2) >= n THEN s2 ELSE BackfillLoop(Tail(cands), s2, n)

\* _pick_top_diverse(ranked, n, min_dist)
_pick_top_diverse(ranked, n, min_dist) ==
    IF Len(ranked) <= n THEN Take(ranked, n)
    ELSE LET selected == PickLoop(Tail(ranked), <<Head(ranked)>>, n, min_dist)
             filled == IF Len(selected) < n
                       THEN BackfillLoop(ranked, selected, n)
                       ELSE selected
         IN  Take(filled, n)

\* the list s without the elements for which keep is FALSE
RECURSIVE Filter(_, _)
Filter(s, keep) ==
    IF s = <<>> THEN <<>>
    ELSE IF keep[Head(s)] THEN <<Head(s)>> \o Filter(Tail(s), keep)
    ELSE Filter(Tail(s), keep)

\* pool.append(c) for the c of more that are not in pool
RECURSIVE AppendNew(_, _)
AppendNew(pool, more) ==
    IF more = <<>> THEN pool
    ELSE AppendNew(IF InSeq(Head(more), pool) THEN pool
                   ELSE Append(pool, Head(more)), Tail(more))

dark_fill == <<<<"#", "1", "a", "1", "a", "2", "e">>, <<"#", "1", "6", "2", "1", "3", "e">>, <<"#", "0", "f", "3", "4", "6", "0">>>>

\* the padding loop of _extract_brand_colors over the fallbacks left
RECURSIVE PadLoop(_, _)
PadLoop(fill, res) ==
    IF fill = <<>> THEN res
    ELSE LET nf == Head(fill)
             r2 == IF ~InSeq(nf, res)
                      /\ \A i \in 1..Len(res) : FarApart(nf, res[i], 40)
                   THEN Append(res, nf) ELSE res
         IN  IF Len(r2) >= 3 THEN r2 ELSE PadLoop(Tail(fill), r2)

\* _extract_brand_colors from the colours counted on the page, counted
\* being ranked_all, [c for c, _ in counts.most_common(40)]
_extract_brand_colors(counted) ==
    LET cs == {counted[i] : i \in 1..Len(counted)}
        non_neutral == Filter(counted, [c \in cs |-> ~_is_neutral(c)])
        picked == IF Len(non_neutral) >= 3 THEN _pick_top_diverse(non_neutral, 3, 60)
                  ELSE IF non_neutral # <<>>
                  THEN _pick_top_diverse(AppendNew(non_neutral, counted), 3, 60)
                  ELSE _pick_top_diverse(counted, 3, 60)
    IN  IF counted = <<>> THEN <<>>
        ELSE IF Len(picked) < 3 THEN Take(PadLoop(dark_fill, picked), 3)
        ELSE Take(picked, 3)

-----------------------------------------------------------------------------
(* landing.analyzer: _post_validate *)

LineSeps == {"\n", ";", "bullet"}      \* "bullet" stands for U+2022

\* re.split(r"[\n;•]+", text)
RECURSIVE SplitLines(_)
SplitLines(text) ==
    LET k == LeastIn({i \in 1..Len(text) : text[i] \in LineSeps})
    IN  IF k = 0 THEN <<text>>
        ELSE <<SubSeq(text, 1, k - 1)>> \o SplitLines(Skip(From(text, k), LineSeps))

\* s.strip(chars)
RECURSIVE RStripChars(_, _)
RStripChars(s, C) ==
    IF s # <<>> /\ s[Len(s)] \in C THEN RStripChars(SubSeq(s, 1, Len(s) - 1), C)
    ELSE s

StripChars(s, C) == RStripChars(Skip(s, C), C)

\* _lines_from_text
_lines_from_text(text) ==
    IF ~Truthy(text) THEN <<>>
    ELSE LET parts == SplitLines(text)
             kept == Filter(parts, [p \in {parts[i] : i \in 1..Len(parts)} |->
                                       Strip(p) # <<>>])
         IN  [i \in 1..Len(kept) |-> Strip(StripChars(kept[i], {"-", " "}))]

\* list(dict.fromkeys(s))
RECURSIVE FromKeys(_)
FromKeys(s) ==
    IF s = <<>> THEN <<>>
    ELSE LET init == FromKeys(SubSeq(s, 1, Len(s) - 1))
         IN  IF InSeq(s[Len(s)], init) THEN init ELSE Append(init, s[Len(s)])

\* "\n".join(lines)
RECURSIVE JoinLines(_)
JoinLines(lines) ==
    IF lines = <<>> THEN <<>>
    ELSE IF Len(lines) = 1 THEN lines[1]
    ELSE lines[1] \o <<"\n">> \o JoinLines(Tail(lines))

MaxLines == 5
MinLines == 3

DefaultScopeLines ==
    <<<<"A", "n", "s", "w", "e", "r", " ", "q", "u", "e", "s", "t", "i", "o", "n", "s", " ", "a", "b", "o", "u", "t", " ", "o", "f", "f", "e", "r", "i", "n", "g", "s">>,
      <<"P", "r", "o", "v", "i", "d", "e", " ", "b", "a", "s", "i", "c", " ", "g", "u", "i", "d", "a", "n", "c", "e", " ", "a", "n", "d", " ", "n", "a", "v", "i", "g", "a", "t", "i", "o", "n">>>>

DefaultOutLines ==
    <<<<"N", "o", " ", "l", "e", "g", "a", "l", ",", " ", "m", "e", "d", "i", "c", "a", "l", ",", " ", "o", "r", " ", "f", "i", "n", "a", "n", "c", "i", "a", "l", " ", "a", "d", "v", "i", "c", "e">>,
      <<"N", "o", " ", "a", "c", "c", "o", "u", "n", "t", "-", "s", "p", "e", "c", "i", "f", "i", "c", " ", "a", "c", "t", "i", "o", "n", "s", " ", "w", "i", "t", "h", "o", "u", "t", " ", "v", "e", "r", "i", "f", "i", "c", "a", "t", "i", "o", "n">>,
      <<"N", "o", " ", "c", "o", "m", "m", "i", "t", "m", "e", "n", "t", "s", " ", "b", "e", "y", "o", "n", "d", " ", "p", "u", "b", "l", "i", "s", "h", "e", "d", " ", "c", "o", "m", "p", "a", "n", "y", " ", "p", "o", "l", "i", "c", "i", "e", "s">>>>

\* the scope lines of _post_validate before deduplication
ScopeLines(d, ev) ==
    LET scope_lines == _lines_from_text(d.scope)
        seed == IF d.products_and_services # <<>>
                THEN d.products_and_services ELSE ev.nav_items
        head == Take(seed, 5)
    IN  IF Len(scope_lines) < MinLines
        THEN [i \in 1..Len(head) |-> <<"H", "e", "l", "p", " ", "w", "i", "t", "h", " ">> \o head[i]] \o DefaultScopeLines
        ELSE scope_lines

\* the out_of_scope lines of _post_validate before deduplication
OutLines(d) ==
    LET out_lines == _lines_from_text(d.out_of_scope)
    IN  IF Len(out_lines) < MinLines THEN DefaultOutLines ELSE out_lines

\* the brand_colors of _post_validate
BrandColors(d, colors) ==
    LET chosen == IF colors # <<>> THEN colors ELSE d.brand_colors
        hexes == Filter(chosen, [c \in {chosen[i] : i \in 1..Len(chosen)} |->
                                    IsStr(c) /\ StartsWith(c, <<"#">>)])
    IN  Take([i \in 1..Len(hexes) |-> _hex_normalize(hexes[i])], 3)

\* _post_validate(data, evidence, deterministic_colors, url): the fields
\* brand_colors, scope and out_of_scope of the profile it returns (the
\* other fields are computed independently of these three)
_post_validate(d, ev, colors) ==
    [brand_colors |-> BrandColors(d, colors),
     scope |-> JoinLines(Take(FromKeys(ScopeLines(d, ev)), MaxLines)),
     out_of_scope |-> JoinLines(Take(FromKeys(OutLines(d)), MaxLines))]

\* number of lines of a text
LineCount(text) ==
    IF text = <<>> THEN 0
    ELSE 1 + Cardinality({i \in 1..Len(text) : text[i] = "\n"})

-----------------------------------------------------------------------------
(* The landing analyzer on its own *)

Red     == <<"#", "f", "f", "0", "0", "0", "0">>
Crimson == <<"#", "d", "c", "1", "4", "3", "c">>
Blue    == <<"#", "0", "0", "0", "0", "f", "f">>

\* colours a page can carry: three saturated ones, the second fallback, a
\* colour next to the first fallback, and a neutral
Colors == {Red, Crimson, Blue, <<"#", "1", "6", "2", "1", "3", "e">>, <<"#", "1", "a", "1", "a", "3", "0">>, <<"#", "0", "0", "0", "0", "0", "0">>}

\* the keys of a Counter in most_common order: no colour twice
RankedLists ==
    {s \in SeqsUpTo(Colors, MaxColors) :
        \A i, j \in 1..Len(s) : i # j => s[i] # s[j]}

MinDists == {40, 60}

ScopeTexts ==
    {<<>>, <<"a", "\n", "b", "\n", "c">>, <<"a", "\n", "a", "\n", "a">>, <<"a", ";", "b", ";", "c", ";", "d", ";", "e", ";", "f">>, <<"-", " ", "a", "\n", "b">>}

OutTexts == {<<>>, <<"x", ";", "y", ";", "z">>, <<"x", "\n", "x", "\n", "x", ";", "x">>}

Offerings ==
    {<<>>, <<<<"p">>>>, <<<<"p">>, <<"q">>, <<"r">>, <<"s">>, <<"t">>, <<"u">>>>}

NavLists == {<<>>, <<<<"n">>>>}

OracleColors == {<<>>, <<<<"#", "F", "0", "0">>>>}

\* the normalized oracle outputs handed to _post_validate
OracleData ==
    [scope : ScopeTexts, out_of_scope : OutTexts,
     products_and_services : Offerings, brand_colors : OracleColors]

Evidence == [nav_items : NavLists]

NoArgs == [ranked |-> <<>>, n |-> 0, min_dist |-> 0]
NoData == [scope |-> <<>>, out_of_scope |-> <<>>,
           products_and_services |-> <<>>, brand_colors |-> <<>>]
NoProfile == [brand_colors |-> <<>>, scope |-> <<>>, out_of_scope |-> <<>>]

LandInit ==
    /\ LandIdle
    /\ ParseIdle
    /\ MoreIdle
    /\ PagIdle
    /\ CleanIdle
    /\ AgentIdle

\* _pick_top_diverse(ranked, n, min_dist)
PickTopDiverse ==
    /\ lpc = "idle"
    /\ \E r \in RankedLists \ {<<>>}, n \in 1..MaxPick, d \in MinDists :
          /\ pickArgs' = [ranked |-> r, n |-> n, min_dist |-> d]
          /\ pickResult' = _pick_top_diverse(r, n, d)
    /\ lpc' = "picked"
    /\ UNCHANGED <<ranked_all, deterministic_colors, data, evidence, profile>>

\* _analyze_website_inner up to the oracle call: the colours counted on
\* the fetched page and _extract_brand_colors
ExtractBrandColors ==
    /\ lpc = "idle"
    /\ \E r \in RankedLists :
          /\ ranked_all' = r
          /\ deterministic_colors' = _extract_brand_colors(r)
    /\ lpc' = "colors"
    /\ UNCHANGED <<pickArgs, pickResult, data, evidence, profile>>

\* the oracle answers with a JSON object and _analyze_website_inner
\* returns _post_validate(normalized, evidence, deterministic_colors, url)
PostValidate ==
    /\ lpc = "colors"
    /\ \E d \in OracleData, e \in Evidence :
          /\ data' = d
          /\ evidence' = e
          /\ profile' = _post_validate(d, e, deterministic_colors)
    /\ lpc' = "done"
    /\ UNCHANGED <<pickArgs, pickResult, ranked_all, deterministic_colors>>

\* the next call starts from nothing
LandReset ==
    /\ lpc \in {"picked", "done"}
    /\ lpc' = "idle"
    /\ pickArgs' = NoArgs
    /\ pickResult' = <<>>
    /\ ranked_all' = <<>>
    /\ deterministic_colors' = <<>>
    /\ data' = NoData
    /\ evidence' = [nav_items |-> <<>>]
    /\ profile' = NoProfile

LandNext ==
    (PickTopDiverse \/ ExtractBrandColors \/ PostValidate \/ LandReset)
    /\ UNCHANGED <<pagVars, cleanVars, agentVars, parseVars, moreVars>>

SpecLand == LandInit /\ [][LandNext]_vars

\* C12: diversity selection with candidates ranked [#ff0000, #dc143c,
\* #0000ff], minimum distance 60 and n = 2 returns [#ff0000, #0000ff].
C12_CrimsonRejected ==
    (lpc = "picked" /\ pickArgs = [ranked |-> <<Red, Crimson, Blue>>, n |-> 2, min_dist |-> 60])
        => pickResult = <<Red, Blue>>

\* C12 as amended: that selection returns [#ff0000, #dc143c]: the
\* Euclidean RGB distance of #dc143c to #ff0000 is at least 60 (its square
\* is 5225), so #dc143c is accepted and #0000ff is not reached.
C12_CrimsonAccepted ==
    (lpc = "picked" /\ pickArgs = [ranked |-> <<Red, Crimson, Blue>>, n |-> 2, min_dist |-> 60])
        => /\ pickResult = <<Red, Crimson>>
           /\ _color_distance_squared(Crimson, Red) = 5225
           /\ FarApart(Crimson, Red, 60)

\* the selection of the claim has been made
C12_Witness ==
    /\ lpc = "picked"
    /\ pickArgs = [ranked |-> <<Red, Crimson, Blue>>, n |-> 2, min_dist |-> 60]
    /\ Len(pickResult) = 2

\* C13: whenever the page yields at least one colour candidate, the
\* extractor returns exactly 3 colours and the profile's brand_colors has
\* exactly 3 entries.
C13_ThreeColors ==
    /\ (lpc \in {"colors", "done"} /\ ranked_all # <<>>) =>
           Len(deterministic_colors) = 3
    /\ (lpc = "done" /\ ranked_all # <<>>) => Len(profile.brand_colors) = 3

\* C14: after _post_validate, scope and out_of_scope each have at least 3
\* and at most 5 lines.
C14_ThreeToFiveLines ==
    lpc = "done" =>
        /\ LineCount(profile.scope) \in MinLines..MaxLines
        /\ LineCount(profile.out_of_scope) \in MinLines..MaxLines

-----------------------------------------------------------------------------
(* ProductParser: the field extractor *)

\* select_one / find found no element
NoElement == <<"NoElement">>

\* ProductParser._clean_text
_clean_text(text) == IF ~Truthy(text) THEN <<>> ELSE Strip(CollapseWs(text))

IsoCodes == {<<"U", "S", "D">>, <<"E", "U", "R">>, <<"G", "B", "P">>, <<"I", "N", "R">>}

\* t without a leading ISO currency code, or NonStr when it has none
SkipIso(t) ==
    IF Len(t) >= 3 /\ SubSeq(t, 1, 3) \in IsoCodes THEN From(t, 4) ELSE NonStr

\* t without the longest prefix matching [\d,]+\.?\d*, or NonStr when
\* [\d,]+ does not match at the start of t
SkipAmount(t) ==
    IF Span(t, PriceChars) >= 1
    THEN Skip(SkipOpt(Skip(t, PriceChars), {"."}), Digits)
    ELSE NonStr

\* what is left of t after a match of PRICE_PATTERNS[k] at its start, or
\* NonStr when the pattern does not match there
AfterPricePattern(k, t) ==
    CASE k = 1 -> IF t # <<>> /\ Head(t) \in Currency
                  THEN SkipAmount(Skip(Tail(t), WS)) ELSE NonStr
      [] k = 2 -> LET a == SkipAmount(t)
                      e == IF a = NonStr THEN <<>> ELSE Skip(a, WS)
                  IN  IF e # <<>> /\ Head(e) \in Currency THEN Tail(e) ELSE NonStr
      [] k = 3 -> LET c == Skip(t, PriceChars)
                  IN  IF Span(t, PriceChars) >= 1 /\ Len(c) >= 3 /\ c[1] = "."
                         /\ c[2] \in Digits /\ c[3] \in Digits
                      THEN From(c, 4) ELSE NonStr
      [] k = 4 -> IF SkipIso(t) = NonStr THEN NonStr
                  ELSE SkipAmount(Skip(SkipIso(t), WS))
      [] k = 5 -> LET a == SkipAmount(t)
                  IN  IF a = NonStr THEN NonStr ELSE SkipIso(Skip(a, WS))
      [] OTHER -> IF StartsWith(t, <<"P", "r", "i", "c", "e", ":">>)
                  THEN SkipAmount(Skip(SkipOpt(Skip(From(t, 7), WS), Currency), WS))
                  ELSE NonStr

NumPricePatterns == 6

\* re.search(PRICE_PATTERNS[k], s) from position i on: match.group(0), or
\* None
RECURSIVE SearchPricePattern(_, _, _)
SearchPricePattern(k, s, i) ==
    IF i > Len(s) THEN None
    ELSE LET rest == AfterPricePattern(k, From(s, i))
         IN  IF rest # NonStr THEN SubSeq(s, i, Len(s) - Len(rest))
             ELSE SearchPricePattern(k, s, i + 1)

\* the loop of _extract_price_text over the patterns from k on
RECURSIVE PricePatternLoop(_, _)
PricePatternLoop(k, text) ==
    IF k > NumPricePatterns THEN None
    ELSE LET m == SearchPricePattern(k, text, 1)
         IN  IF m # None THEN _clean_text(m) ELSE PricePatternLoop(k + 1, text)

\* ProductParser._extract_price_text
_extract_price_text(text) ==
    IF ~Truthy(text) THEN None ELSE PricePatternLoop(1, Strip(text))

\* strategy 2 of _extract_name over the matching selectors left
RECURSIVE NameSelectorLoop(_)
NameSelectorLoop(texts) ==
    IF texts = <<>> THEN None
    ELSE LET text == _clean_text(Head(texts))
         IN  IF Truthy(text) /\ Len(text) > 2 THEN text
             ELSE NameSelectorLoop(Tail(texts))

\* strategy 3 of _extract_name over the links left
RECURSIVE NameLinkLoop(_)
NameLinkLoop(texts) ==
    IF texts = <<>> THEN None
    ELSE LET text == _clean_text(Head(texts))
         IN  IF Truthy(text) /\ Len(text) > 5
                /\ ~StartsWith(text, <<"h", "t", "t", "p">>) /\ ~StartsWith(text, <<"w", "w", "w">>)
             THEN text
             ELSE NameLinkLoop(Tail(texts))

\* ProductParser._extract_name on the name elements c of a container;
\* custom: custom_selectors has a product_name selector
_extract_name(c, custom) ==
    IF custom /\ c.custom # NoElement THEN _clean_text(c.custom)
    ELSE IF c.itemprop # NoElement THEN _clean_text(c.itemprop)
    ELSE IF NameSelectorLoop(c.selectors) # None THEN NameSelectorLoop(c.selectors)
    ELSE NameLinkLoop(c.links)

\* strategy 2 of _extract_price over the matching selectors left; each
\* element with its data-price and content attributes and its text
RECURSIVE PriceSelectorLoop(_)
PriceSelectorLoop(els) ==
    IF els = <<>> THEN None
    ELSE LET el == Head(els)
             attr == Or(el.data_price, el.content)
         IN  IF Truthy(attr) THEN _clean_text(attr)
             ELSE IF Truthy(_extract_price_text(el.text))
             THEN _extract_price_text(el.text)
             ELSE PriceSelectorLoop(Tail(els))

\* ProductParser._extract_price on the price elements c of a container;
\* c.itemprop holds the itemprop element when there is one
_extract_price(c, custom) ==
    IF custom /\ c.custom # NoElement THEN _extract_price_text(c.custom)
    ELSE IF c.itemprop # <<>>
            /\ Truthy(Or(c.itemprop[1].content, c.itemprop[1].text))
    THEN _clean_text(Or(c.itemprop[1].content, c.itemprop[1].text))
    ELSE IF PriceSelectorLoop(c.selectors) # None THEN PriceSelectorLoop(c.selectors)
    ELSE _extract_price_text(c.text)

OUT_OF_STOCK_INDICATORS ==
    <<<<"o", "u", "t", " ", "o", "f", " ", "s", "t", "o", "c", "k">>, <<"s", "o", "l", "d", " ", "o", "u", "t">>, <<"u", "n", "a", "v", "a", "i", "l", "a", "b", "l", "e">>, <<"n", "o", "t", " ", "a", "v", "a", "i", "l", "a", "b", "l", "e">>,
      <<"o", "u", "t", "-", "o", "f", "-", "s", "t", "o", "c", "k">>, <<"c", "u", "r", "r", "e", "n", "t", "l", "y", " ", "u", "n", "a", "v", "a", "i", "l", "a", "b", "l", "e">>, <<"n", "o", "t", "i", "f", "y", " ", "m", "e">>>>

IN_STOCK_INDICATORS ==
    <<<<"i", "n", " ", "s", "t", "o", "c", "k">>, <<"a", "v", "a", "i", "l", "a", "b", "l", "e">>, <<"a", "d", "d", " ", "t", "o", " ", "c", "a", "r", "t">>, <<"b", "u", "y", " ", "n", "o", "w">>,
      <<"a", "d", "d", " ", "t", "o", " ", "b", "a", "g">>, <<"i", "n", "-", "s", "t", "o", "c", "k">>, <<"s", "h", "i", "p", "s", " ", "f", "r", "o", "m">>>>

\* ProductParser._determine_availability
_determine_availability(text) ==
    LET text_lower == Strip(Lower(text))
    IN  IF AnyIn(text_lower, OUT_OF_STOCK_INDICATORS) THEN <<"O", "u", "t", " ", "o", "f", " ", "S", "t", "o", "c", "k">>
        ELSE IF AnyIn(text_lower, IN_STOCK_INDICATORS) THEN <<"I", "n", " ", "S", "t", "o", "c", "k">>
        ELSE <<"U", "n", "k", "n", "o", "w", "n">>

\* strategy 1 of _extract_availability: the verdict of the itemprop
\* element with attribute value content, or None when it gives none
SchemaAvailability(content) ==
    IF content = NoElement THEN None
    ELSE IF Contains(content, <<"I", "n", "S", "t", "o", "c", "k">>) \/ Contains(Lower(content), <<"i", "n", "s", "t", "o", "c", "k">>)
    THEN <<"I", "n", " ", "S", "t", "o", "c", "k">>
    ELSE IF Contains(content, <<"O", "u", "t", "O", "f", "S", "t", "o", "c", "k">>) \/ Contains(Lower(content), <<"o", "u", "t", "o", "f", "s", "t", "o", "c", "k">>)
    THEN <<"O", "u", "t", " ", "o", "f", " ", "S", "t", "o", "c", "k">>
    ELSE None

\* ProductParser._extract_availability on the availability elements c of
\* a container
_extract_availability(c, custom) ==
    IF custom /\ c.custom # NoElement THEN _determine_availability(c.custom)
    ELSE IF SchemaAvailability(c.itemprop) # None THEN SchemaAvailability(c.itemprop)
    ELSE IF c.selectors # <<>> THEN _determine_availability(Head(c.selectors))
    ELSE _determine_availability(Lower(c.text))

\* urljoin(self.base_url, href) for base_url = scheme://netloc and a
\* non-empty href without dot segments
JoinBase(base, href) ==
    IF StartsWith(href, <<"h", "t", "t", "p", ":", "/", "/">>) \/ StartsWith(href, <<"h", "t", "t", "p", "s", ":", "/", "/">>) THEN href
    ELSE IF StartsWith(href, <<"/", "/">>)
    THEN SubSeq(base, 1, Span(base, {"h", "t", "p", "s"})) \o <<":">> \o href
    ELSE IF Head(href) \in {"/", "?", "#"}
    THEN (IF href = <<"#">> THEN base ELSE base \o href)
    ELSE base \o <<"/">> \o href

ProductUrlKeywords == <<<<"/", "p", "r", "o", "d", "u", "c", "t">>, <<"/", "i", "t", "e", "m">>, <<"/", "p", "/">>, <<"/", "d", "p", "/">>, <<"/", "p", "d", "/">>>>

\* strategy 3 of _extract_product_url over the links left
RECURSIVE ProductLinkLoop(_)
ProductLinkLoop(hrefs) ==
    IF hrefs = <<>> THEN None
    ELSE IF AnyIn(Lower(Head(hrefs)), ProductUrlKeywords) THEN Head(hrefs)
    ELSE ProductLinkLoop(Tail(hrefs))

\* ProductParser._extract_product_url on the link elements c of a
\* container: the href that is joined to base_url, or None
ProductHref(c, custom) ==
    IF custom /\ c.custom # NoElement /\ Truthy(c.custom) THEN c.custom
    ELSE IF c.itemprop # <<>>
            /\ Truthy(Or(c.itemprop[1].href, c.itemprop[1].content))
    THEN Or(c.itemprop[1].href, c.itemprop[1].content)
    ELSE IF c.name_links # <<>> /\ Truthy(Head(c.name_links)) THEN Head(c.name_links)
    ELSE IF ProductLinkLoop(c.links) # None THEN ProductLinkLoop(c.links)
    ELSE IF c.links # <<>> /\ Truthy(Head(c.links)) /\ Head(c.links) # <<"#">>
    THEN Head(c.links)
    ELSE None

\* ProductParser._extract_product_url
_extract_product_url(base, c, custom) ==
    IF ProductHref(c, custom) = None THEN None
    ELSE JoinBase(base, ProductHref(c, custom))

\* s up to the first ch
RECURSIVE Before(_, _)
Before(s, ch) ==
    IF s = <<>> \/ Head(s) = ch THEN <<>>
    ELSE <<Head(s)>> \o Before(Tail(s), ch)

\* src.split(",")[0].strip().split(" ")[0]
FirstOfSrcset(src) == Before(Strip(Before(src, ",")), " ")

\* ProductParser._get_image_src over the values left of the attributes
\* src, data-src, ... of an element, in the order the code reads them
RECURSIVE _get_image_src(_)
_get_image_src(attrs) ==
    IF attrs = <<>> THEN None
    ELSE LET raw == Head(attrs)
             src == IF Truthy(raw) /\ Contains(raw, <<",">>)
                    THEN FirstOfSrcset(raw) ELSE raw
         IN  IF Truthy(raw) /\ Truthy(src) /\ ~StartsWith(src, <<"d", "a", "t", "a", ":">>) THEN src
             ELSE _get_image_src(Tail(attrs))

SkipPatterns ==
    <<<<"i", "c", "o", "n">>, <<"l", "o", "g", "o">>, <<"b", "a", "d", "g", "e">>, <<"p", "l", "a", "c", "e", "h", "o", "l", "d", "e", "r">>, <<"b", "l", "a", "n", "k">>, <<"p", "i", "x", "e", "l">>,
      <<"s", "p", "a", "c", "e", "r">>, <<"l", "o", "a", "d", "i", "n", "g">>, <<"s", "p", "i", "n", "n", "e", "r">>, <<"1", "x", "1">>, <<"t", "r", "a", "n", "s", "p", "a", "r", "e", "n", "t">>>>

\* ProductParser._is_icon_or_placeholder
_is_icon_or_placeholder(src) == AnyIn(Lower(src), SkipPatterns)

\* the image of el, or None
ImageOf(el) == IF el = NoElement THEN None ELSE _get_image_src(el)

\* strategy 2 of _extract_image_url over the matching selectors left
RECURSIVE ImageSelectorLoop(_)
ImageSelectorLoop(els) ==
    IF els = <<>> THEN None
    ELSE LET src == _get_image_src(Head(els))
         IN  IF Truthy(src) /\ ~_is_icon_or_placeholder(src) THEN src
             ELSE ImageSelectorLoop(Tail(els))

\* ProductParser._extract_image_url on the image elements c of a
\* container
_extract_image_url(base, c, custom) ==
    IF custom /\ Truthy(ImageOf(c.custom)) THEN JoinBase(base, ImageOf(c.custom))
    ELSE IF Truthy(ImageOf(c.itemprop)) THEN JoinBase(base, ImageOf(c.itemprop))
    ELSE IF ImageSelectorLoop(c.selectors) # None
    THEN JoinBase(base, ImageSelectorLoop(c.selectors))
    ELSE None

\* the five results of the extractors on container c under the selectors
\* cs, which says for each field whether custom_selectors has an entry
ExtractFields(base, c, cs) ==
    [name         |-> _extract_name(c.name, cs.product_name),
     price        |-> _extract_price(c.price, cs.product_price),
     availability |-> _extract_availability(c.availability, cs.availability),
     product_url  |-> _extract_product_url(base, c.product_url, cs.product_url),
     image_url    |-> _extract_image_url(base, c.image_url, cs.product_image)]

\* ProductParser.parse_product
parse_product(base, c, cs) ==
    LET product == ExtractFields(base, c, cs)
    IN  IF Truthy(product.name) \/ Truthy(product.price) THEN product
        ELSE NoParsed

-----------------------------------------------------------------------------
(* BaseScraper.find_product_containers (engines/base.py) *)

\* soup.select(selector) raised
SelectError == <<"SelectError">>

\* a built-in pattern with these matches is taken for a listing with one
\* match already
IsListingOneMatch(found) == found # SelectError /\ Len(found) >= 1

\* the test of the pattern loop on the matches of one pattern
IsListing(found) == found # SelectError /\ Len(found) >= 2

\* the loop over selector_patterns, on the matches of the patterns left;
\* heuristic is what _heuristic_container_detection returns
RECURSIVE PatternLoop(_, _)
PatternLoop(matches, heuristic) ==
    IF matches = <<>> THEN heuristic
    ELSE IF IsListing(Head(matches)) THEN Head(matches)
    ELSE PatternLoop(Tail(matches), heuristic)

\* BaseScraper.find_product_containers; s.custom: the matches of the
\* custom product_container selector, custom: the selector is configured
find_product_containers(s, custom) ==
    IF custom /\ s.custom # <<>> THEN s.custom
    ELSE PatternLoop(s.patterns, s.heuristic)

-----------------------------------------------------------------------------
(* Specification of the rule-based extraction of one page: the container *)
(* locator, and one record through parse_product or the oracle extractor, *)
(* _validate_products and DataCleaner.clean                               *)

\* what soup.select can return: elements of the page in document order
MatchLists ==
    {<<>>, <<"e1">>, <<"e2">>, <<"e1", "e2">>, <<"e2", "e3">>, <<"e1", "e2", "e3">>}

\* the pages the locator is run on
Soups ==
    [custom    : MatchLists,
     patterns  : [1..MaxPatterns -> MatchLists \cup {SelectError}],
     heuristic : {<<>>, <<"e1", "e2", "e3">>}]

BaseUrl == <<"h", "t", "t", "p", ":", "/", "/", "a">>

\* s1 + " " + s2 + ... for the texts of the elements of a container
RECURSIVE JoinTexts(_)
JoinTexts(texts) ==
    IF texts = <<>> THEN <<>>
    ELSE IF Len(texts) = 1 THEN Head(texts)
    ELSE Head(texts) \o <<" ">> \o JoinTexts(Tail(texts))

\* the text of an element that may be absent
TextOf(el) == IF el = NoElement THEN <<>> ELSE el

NameEls ==
    [custom    : {NoElement, <<>>, <<"T", "v", " ", "1">>},
     itemprop  : {NoElement, <<" ">>, <<"T", "v", " ", "2">>},
     selectors : {<<>>, <<<<"a", "b">>, <<"T", "v", " ", "3">>>>, <<<<"T", "v", " ", "3">>>>},
     links     : {<<>>, <<<<"h", "t", "t", "p", " ", "x">>, <<"T", "v", " ", "l", "i", "n", "k">>>>}]

PriceEl(dp, co, text) == [data_price |-> dp, content |-> co, text |-> text]

\* the price elements of a container; its text holds the texts of its
\* elements and rest
PriceEls ==
    {[custom |-> cu, itemprop |-> ip, selectors |-> se,
      text |-> JoinTexts(<<TextOf(cu), IF ip = <<>> THEN <<>> ELSE ip[1].text>>
                         \o [i \in 1..Len(se) |-> se[i].text] \o <<rest>>)] :
        cu \in {NoElement, <<"n", "/", "a">>, <<"n", "o", "w", " ", "$", "5">>},
        ip \in {<<>>, <<[content |-> None, text |-> <<>>]>>,
                <<[content |-> <<"6", ".", "0", "0">>, text |-> <<"x">>]>>,
                <<[content |-> None, text |-> <<" ", "7", " ">>]>>},
        se \in {<<>>,
                <<PriceEl(None, None, <<"c", "a", "l", "l">>), PriceEl(<<"8">>, None, <<>>)>>,
                <<PriceEl(None, None, <<"9", ".", "5", "0", " ", "e", "a", "c", "h">>)>>},
        rest \in {<<>>, <<"T", "v", " ", "U", "S", "D", " ", "1", "0">>}}

AvailabilityEls ==
    {[custom |-> cu, itemprop |-> ip, selectors |-> se,
      text |-> JoinTexts(<<TextOf(cu)>> \o se \o <<rest>>)] :
        cu \in {NoElement, <<"s", "o", "o", "n">>, <<"I", "n", " ", "s", "t", "o", "c", "k", ",", " ", "s", "t", "o", "r", "e", " ", "s", "o", "l", "d", " ", "o", "u", "t">>},
        ip \in {NoElement, <<>>, <<"h", "t", "t", "p", ":", "/", "/", "s", "c", "h", "e", "m", "a", ".", "o", "r", "g", "/", "I", "n", "S", "t", "o", "c", "k">>, <<"O", "u", "t", "O", "f", "S", "t", "o", "c", "k">>},
        se \in {<<>>, <<<<"a", "s", "k">>>>, <<<<"U", "n", "a", "v", "a", "i", "l", "a", "b", "l", "e">>>>},
        rest \in {<<>>, <<"A", "d", "d", " ", "t", "o", " ", "c", "a", "r", "t">>}}

\* the link elements of a container; a title link with an href is one of
\* its links
UrlEls ==
    {c \in [custom     : {NoElement, None, <<"/", "c">>},
            itemprop   : {<<>>, <<[href |-> None, content |-> None]>>,
                          <<[href |-> None, content |-> <<"h", "t", "t", "p", ":", "/", "/", "b", "/", "i">>]>>},
            name_links : {<<>>, <<None, <<"/", "n">>>>, <<<<"/", "n">>>>},
            links      : {<<>>, <<<<"#">>, <<"/", "x">>>>, <<<<"/", "n">>, <<"/", "i", "t", "e", "m", "/", "1">>>>}] :
        \A i \in 1..Len(c.name_links) :
            c.name_links[i] # None => InSeq(c.name_links[i], c.links)}

\* an element with the attributes src and data-src and none of the other
\* six _get_image_src reads
Img(src, data_src) == <<src, data_src, None, None, None, None, None, None>>

ImageEls ==
    [custom    : {NoElement, Img(None, None), Img(<<"d", "a", "t", "a", ":", "x">>, <<"/", "c", ".", "p", "n", "g">>)},
     itemprop  : {NoElement, Img(<<>>, None), Img(<<"a", ".", "p", "n", "g", " ", "1", "x", ",", " ", "b", ".", "p", "n", "g", " ", "2", "x">>, None)},
     selectors : {<<>>, <<Img(<<"/", "l", "o", "g", "o", ".", "p", "n", "g">>, None), Img(<<"/", "s", ".", "j", "p", "g">>, None)>>,
                  <<Img(<<"/", "/", "c", "d", "n", "/", "i", ".", "j", "p", "g">>, None)>>}]

\* a container with a name, a price and nothing else
PlainContainer ==
    [name         |-> [custom |-> NoElement, itemprop |-> <<"T", "v", " ", "2">>,
                       selectors |-> <<>>, links |-> <<>>],
     price        |-> [custom |-> NoElement, itemprop |-> <<>>,
                       selectors |-> <<PriceEl(None, None, <<"$", "5">>)>>,
                       text |-> <<"T", "v", " ", "2", " ", "$", "5">>],
     availability |-> [custom |-> NoElement, itemprop |-> NoElement,
                       selectors |-> <<>>, text |-> <<"T", "v", " ", "2", " ", "$", "5">>],
     product_url  |-> [custom |-> NoElement, itemprop |-> <<>>,
                       name_links |-> <<>>, links |-> <<>>],
     image_url    |-> [custom |-> NoElement, itemprop |-> NoElement,
                       selectors |-> <<>>]]

\* the containers parse_product is run on: PlainContainer with the
\* elements of one field replaced
Containers ==
    {[PlainContainer EXCEPT !.name = c] : c \in NameEls}
    \cup {[PlainContainer EXCEPT !.price = c] : c \in PriceEls}
    \cup {[PlainContainer EXCEPT !.availability = c] : c \in AvailabilityEls}
    \cup {[PlainContainer EXCEPT !.product_url = c] : c \in UrlEls}
    \cup {[PlainContainer EXCEPT !.image_url = c] : c \in ImageEls}

NoCustomSelectors ==
    [product_name |-> FALSE, product_price |-> FALSE, availability |-> FALSE,
     product_url |-> FALSE, product_image |-> FALSE]

\* custom_selectors with no entry, or with an entry for every field
CustomSelectors ==
    {NoCustomSelectors,
     [product_name |-> TRUE, product_price |-> TRUE, availability |-> TRUE,
      product_url |-> TRUE, product_image |-> TRUE]}

\* availability texts the oracle reports
OracleAvailability ==
    {None, <<"I", "n", " ", "S", "t", "o", "c", "k">>, <<"O", "u", "t", " ", "o", "f", " ", "S", "t", "o", "c", "k">>, <<"U", "n", "a", "v", "a", "i", "l", "a", "b", "l", "e">>,
     <<"I", "n", " ", "s", "t", "o", "c", "k", " ", "o", "n", "l", "i", "n", "e", ",", " ", "s", "o", "l", "d", " ", "o", "u", "t", " ", "i", "n", " ", "s", "t", "o", "r", "e">>, <<"N", "o", "t", " ", "a", "v", "a", "i", "l", "a", "b", "l", "e">>, <<"s", "o", "o", "n">>}

\* prices the oracle reports
OraclePrices ==
    {None, <<"$", "5">>, <<"$", "1", ",", "2", "3", "4", ".", "5", "6">>, <<"1", ".", "2", "3", "4", ",", "5", "6", " ", "€">>, <<"1", "2", ",", "9", "9">>, <<"1", "2", ",", "9", "9", "9">>,
     <<"1", ",", "2", "3", "4", ",", "5", "6", "7", ".", "8", "9">>, <<"1", ".", "2", "3", "4", ".", "5", "6", "7", ",", "8", "9">>, <<"-", "5">>, <<"1", ",", "5">>, <<"€", " ", "0", ",", "5", "0">>,
     <<"1", "2", ",", "9", "9", " ", "k", "r", ".">>, <<"f", "r", "e", "e">>}

\* objects of the oracle's array
OracleObjects ==
    {[name |-> <<"T", "v", " ", "1">>, price |-> <<"$", "5">>, availability |-> a,
      product_url |-> None, image_url |-> None] : a \in OracleAvailability}
    \cup {[name |-> <<"T", "v", " ", "1">>, price |-> p, availability |-> <<"I", "n", " ", "S", "t", "o", "c", "k">>,
            product_url |-> None, image_url |-> None] : p \in OraclePrices}

ParseInit ==
    /\ ParseIdle
    /\ MoreIdle
    /\ PagIdle
    /\ CleanIdle
    /\ AgentIdle
    /\ LandIdle

\* BaseScraper.find_product_containers(soup)
FindProductContainers ==
    /\ ppc = "idle"
    /\ \E s \in Soups, custom \in BOOLEAN :
          /\ locArgs' = [soup |-> s, custom |-> custom]
          /\ located' = find_product_containers(s, custom)
    /\ ppc' = "located"
    /\ UNCHANGED <<parseArgs, extracted, validatedOne, cleanedOne>>

\* ProductParser.parse_product(container)
ParseProduct ==
    /\ ppc = "idle"
    /\ \E c \in Containers, cs \in CustomSelectors :
          /\ parseArgs' = [mode |-> "rules", container |-> c,
                           custom_selectors |-> cs, obj |-> NoParsed]
          /\ extracted' = parse_product(BaseUrl, c, cs)
    /\ ppc' = "extracted"
    /\ UNCHANGED <<locArgs, located, validatedOne, cleanedOne>>

\* extract_products_with_openai: one object of the array
OracleProduct ==
    /\ ppc = "idle"
    /\ \E o \in OracleObjects :
          /\ parseArgs' = [mode |-> "oracle", container |-> PlainContainer,
                           custom_selectors |-> NoCustomSelectors, obj |-> o]
          /\ extracted' = OracleRecord(o)
    /\ ppc' = "extracted"
    /\ UNCHANGED <<locArgs, located, validatedOne, cleanedOne>>

\* _validate_products on the record; a container parse_product rejects
\* gives no record
ValidateProduct ==
    /\ ppc = "extracted"
    /\ extracted # NoParsed
    /\ validatedOne' = ValidateOne(extracted)
    /\ ppc' = "validated"
    /\ UNCHANGED <<locArgs, located, parseArgs, extracted, cleanedOne>>

\* DataCleaner.clean on the record
CleanProduct ==
    /\ ppc = "validated"
    /\ cleanedOne' = clean(<<validatedOne>>)
    /\ ppc' = "cleaned"
    /\ UNCHANGED <<locArgs, located, parseArgs, extracted, validatedOne>>

\* the next page or record
ParseReset ==
    /\ ppc \in {"located", "extracted", "cleaned"}
    /\ ppc = "extracted" => extracted = NoParsed
    /\ ppc' = "idle"
    /\ locArgs' = NoLocArgs
    /\ located' = <<>>
    /\ parseArgs' = NoParseArgs
    /\ extracted' = NoParsed
    /\ validatedOne' = NoParsed
    /\ cleanedOne' = <<>>

ParseNext ==
    /\ \/ FindProductContainers
       \/ ParseProduct
       \/ OracleProduct
       \/ ValidateProduct
       \/ CleanProduct
       \/ ParseReset
    /\ UNCHANGED <<pagVars, cleanVars, agentVars, landVars, moreVars>>

SpecParse == ParseInit /\ [][ParseNext]_vars

\* the first non-empty result of a cascade, or None
RECURSIVE FirstNonEmpty(_)
FirstNonEmpty(results) ==
    IF results = <<>> THEN None
    ELSE IF Truthy(Head(results)) THEN Head(results)
    ELSE FirstNonEmpty(Tail(results))

\* what each strategy of a field produces on its own, in cascade order
NameStrategies(c, custom) ==
    <<IF custom /\ c.custom # NoElement THEN _clean_text(c.custom) ELSE None,
      IF c.itemprop # NoElement THEN _clean_text(c.itemprop) ELSE None,
      NameSelectorLoop(c.selectors),
      NameLinkLoop(c.links)>>

PriceStrategies(c, custom) ==
    <<IF custom /\ c.custom # NoElement THEN _extract_price_text(c.custom) ELSE None,
      IF c.itemprop # <<>>
      THEN _clean_text(Or(c.itemprop[1].content, c.itemprop[1].text)) ELSE None,
      PriceSelectorLoop(c.selectors),
      _extract_price_text(c.text)>>

\* a classification of Unknown is no result
Known(a) == IF a = <<"U", "n", "k", "n", "o", "w", "n">> THEN None ELSE a

AvailabilityStrategies(c, custom) ==
    <<IF custom /\ c.custom # NoElement
      THEN Known(_determine_availability(c.custom)) ELSE None,
      SchemaAvailability(c.itemprop),
      IF c.selectors # <<>>
      THEN Known(_determine_availability(Head(c.selectors))) ELSE None,
      Known(_determine_availability(Lower(c.text)))>>

UrlStrategies(c, custom) ==
    <<IF custom /\ c.custom # NoElement THEN c.custom ELSE None,
      IF c.itemprop # <<>>
      THEN Or(c.itemprop[1].href, c.itemprop[1].content) ELSE None,
      IF c.name_links # <<>> THEN Head(c.name_links) ELSE None,
      ProductLinkLoop(c.links),
      IF c.links # <<>> /\ Head(c.links) # <<"#">> THEN Head(c.links) ELSE None>>

ImageStrategies(c, custom) ==
    <<IF custom THEN ImageOf(c.custom) ELSE None,
      ImageOf(c.itemprop),
      ImageSelectorLoop(c.selectors)>>

\* value is what the cascade with these results should give; empty is
\* the value of a field no strategy fills
CascadeGives(value, results, empty) ==
    IF FirstNonEmpty(results) = None THEN value \in {empty, None, <<>>}
    ELSE value = FirstNonEmpty(results)

\* the record of a container has been extracted by the rules
RuleExtracted ==
    ppc = "extracted" /\ parseArgs.mode = "rules" /\ extracted # NoParsed

\* C15: every field of the extracted record is the result of the first
\* strategy of its cascade that produces a non-empty result; an element
\* that is present but yields an empty value does not end the cascade, and
\* the field is empty only if every strategy yields nothing.
C15_FirstNonEmptyWins ==
    RuleExtracted =>
        LET c  == parseArgs.container
            cs == parseArgs.custom_selectors
        IN  /\ CascadeGives(extracted.name,
                            NameStrategies(c.name, cs.product_name), None)
            /\ CascadeGives(extracted.price,
                            PriceStrategies(c.price, cs.product_price), None)
            /\ CascadeGives(extracted.availability,
                            AvailabilityStrategies(c.availability, cs.availability),
                            <<"U", "n", "k", "n", "o", "w", "n">>)
            /\ \/ extracted.product_url = None
                  /\ FirstNonEmpty(UrlStrategies(c.product_url, cs.product_url)) = None
               \/ extracted.product_url = JoinBase(BaseUrl,
                     FirstNonEmpty(UrlStrategies(c.product_url, cs.product_url)))
            /\ \/ extracted.image_url = None
                  /\ FirstNonEmpty(ImageStrategies(c.image_url, cs.product_image)) = None
               \/ extracted.image_url = JoinBase(BaseUrl,
                     FirstNonEmpty(ImageStrategies(c.image_url, cs.product_image)))

\* the text the extraction classifies or passes on: the availability the
\* oracle reports, or the text _extract_availability hands to
\* _determine_availability (None when the itemprop element decides)
AvailabilitySource ==
    IF parseArgs.mode = "oracle" THEN parseArgs.obj.availability
    ELSE LET c == parseArgs.container.availability
         IN  IF parseArgs.custom_selectors.availability /\ c.custom # NoElement
             THEN c.custom
             ELSE IF SchemaAvailability(c.itemprop) # None THEN None
             ELSE IF c.selectors # <<>> THEN Head(c.selectors)
             ELSE Lower(c.text)

\* text holds an in-stock keyword and an out-of-stock keyword
IsMixed(text) ==
    /\ text # None
    /\ AnyIn(Lower(text), IN_STOCK_INDICATORS)
    /\ AnyIn(Lower(text), OUT_OF_STOCK_INDICATORS)

\* C16: availability text with both an in-stock and an out-of-stock
\* keyword is classified Out of Stock by the field extractor, the record
\* validator and the cleaner, and ends as Out of Stock in the cleaned
\* record in both extraction modes.
C16_MixedIsOutOfStock ==
    (ppc = "cleaned" /\ cleanedOne # <<>> /\ IsMixed(AvailabilitySource)) =>
        /\ _determine_availability(AvailabilitySource) = <<"O", "u", "t", " ", "o", "f", " ", "S", "t", "o", "c", "k">>
        /\ normalize_availability(AvailabilitySource) = <<"O", "u", "t", " ", "o", "f", " ", "S", "t", "o", "c", "k">>
        /\ _clean_availability(AvailabilitySource) = <<"O", "u", "t", " ", "o", "f", " ", "S", "t", "o", "c", "k">>
        /\ cleanedOne[1].availability = <<"O", "u", "t", " ", "o", "f", " ", "S", "t", "o", "c", "k">>

\* the locator has run on a page
Located == ppc = "located"

\* the built-in patterns of the page with at least 2 matches
ListingPatterns ==
    {k \in 1..Len(locArgs.soup.patterns) :
        /\ locArgs.soup.patterns[k] # SelectError
        /\ Len(locArgs.soup.patterns[k]) >= 2}

\* the custom product_container selector is configured and matches
CustomMatches == locArgs.custom /\ locArgs.soup.custom # <<>>

\* C17: the container locator never accepts a selector that matches
\* exactly 1 element, and accepts one that matches 2; among the built-in
\* patterns the result is the match set of the first pattern with at least
\* 2 matches.
C17_NeverOneMatch ==
    Located =>
        /\ Len(located) # 1
        /\ ListingPatterns # {} =>
              located = locArgs.soup.patterns[LeastIn(ListingPatterns)]

\* C17 confined to the built-in patterns: the custom selector is accepted
\* with any match; otherwise the result is the match set of the first
\* built-in pattern with at least 2 matches, a pattern with 0 or 1 matches
\* or an invalid one is passed over, and with no such pattern the result
\* is what the heuristic detection returns.
C17_BuiltinNeedsTwo ==
    Located =>
        /\ CustomMatches => located = locArgs.soup.custom
        /\ (~CustomMatches /\ ListingPatterns # {}) =>
              located = locArgs.soup.patterns[LeastIn(ListingPatterns)]
        /\ (~CustomMatches /\ ListingPatterns = {}) =>
              located = locArgs.soup.heuristic

\* a built-in pattern with exactly 1 match is passed over and a later
\* one with 2 matches is accepted
C17_Witness ==
    /\ Located
    /\ ~locArgs.custom
    /\ Len(locArgs.soup.patterns[1]) = 1
    /\ locArgs.soup.patterns[1] # SelectError
    /\ Len(locArgs.soup.patterns[2]) = 2
    /\ located = locArgs.soup.patterns[2]

\* the number a price text stands for by the locale rule: with both '.'
\* and ',' the later one is the decimal separator; a lone comma followed
\* by exactly 2 digits is a decimal comma, any other comma a thousands
\* separator
LocaleNumeric(price) ==
    LET c0    == Keep(price, Digits \cup {".", ","})
        lastC == Len(c0) - Len(LastPart(c0, ","))
        lastD == Len(c0) - Len(LastPart(c0, "."))
        commas == Cardinality({i \in 1..Len(c0) : c0[i] = ","})
        dots   == Cardinality({i \in 1..Len(c0) : c0[i] = "."})
        c1 == IF commas > 0 /\ dots > 0
              THEN IF lastC > lastD
                   THEN ReplaceChar(ReplaceChar(c0, ".", <<>>), ",", <<".">>)
                   ELSE ReplaceChar(c0, ",", <<>>)
              ELSE IF commas = 1 /\ Len(c0) - lastC = 2
              THEN ReplaceChar(c0, ",", <<".">>)
              ELSE ReplaceChar(c0, ",", <<>>)
    IN  IF IsFloatLiteral(c1) THEN Num(RoundedCents(c1)) ELSE None

\* a record has been cleaned
CleanedOne == ppc = "cleaned" /\ cleanedOne # <<>>

\* C18: numeric price parsing handles both locale formats: "$1,234.56"
\* and "1.234,56 €" give 1234.56, "12,99" gives 12.99, "12,999" gives
\* 12999, every price text gives the number of the locale rule, and the
\* result is never negative.
C18_LocaleFormats ==
    CleanedOne =>
        LET price == validatedOne.price
            n     == cleanedOne[1].price_numeric
        IN  /\ price = <<"$", "1", ",", "2", "3", "4", ".", "5", "6">> => n = Num(123456)
            /\ price = <<"1", ".", "2", "3", "4", ",", "5", "6", " ", "€">> => n = Num(123456)
            /\ price = <<"1", "2", ",", "9", "9">> => n = Num(1299)
            /\ price = <<"1", "2", ",", "9", "9", "9">> => n = Num(1299900)
            /\ Truthy(price) => n = LocaleNumeric(price)
            /\ n # None => n[2] >= 0

\* the European format of the claim has been parsed
C18_Witness ==
    /\ CleanedOne
    /\ validatedOne.price = <<"1", ".", "2", "3", "4", ",", "5", "6", " ", "€">>
    /\ cleanedOne[1].price_numeric = Num(123456)

-----------------------------------------------------------------------------
(* Properties of the oracle mode of the page loop *)

\* the page loop is about to process a page for which the oracle's
\* response is not JSON or not a JSON array
OracleNotArray ==
    /\ pc = "process"
    /\ UseOpenai
    /\ html.oracle_resp \in {"not_json", "not_array"}

\* C19: when the oracle's response for a page is not JSON or not a JSON
\* array, the oracle extractor returns an empty list without raising and
\* the page loop falls back to rule-based extraction for that page: the
\* records the field extractor gets from the located containers are added
\* to the result and the page does not count as empty.
C19_FallsBackToRules ==
    [][(OracleNotArray /\ pc' # "process") =>
          LET r == extract_products_with_openai(html.oracle_resp, html.oracle)
          IN  /\ ~r.raised
              /\ r.products = <<>>
              /\ html.containers = "standard" =>
                    /\ all_products' = all_products \o html.parsed
                    /\ html.parsed # <<>> => consecutive_empty' = 0]_vars

\* oracle mode is requested and no credentials are configured
NoCredentials == config.use_openai /\ ~config.openai_api_key

\* C20: with use_openai set and no credentials the run does not start: a
\* configuration error is surfaced to the caller of scrape() before any
\* network activity, so no robots.txt is read, no detection request is
\* made and no page is fetched.
C20_RunDoesNotStart ==
    NoCredentials =>
        /\ pc = "idle"
        /\ fetched = <<>>
        /\ stop \in {"none", "config_error"}

-----------------------------------------------------------------------------
(* Specification of the RateLimiter as scrape() and the page loop drive   *)
(* it (agent.py:87-90, 170-185).  Times are whole seconds; the clock and  *)
(* _last_request_time are left out: wait() is modelled by the delay it    *)
(* chooses.                                                               *)

Max2(a, b) == IF a > b THEN a ELSE b
Min2(a, b) == IF a < b THEN a ELSE b

\* the cap of the backoff delay in wait()
MaxBackoffDelay == 60

\* random.uniform(a, b): a + (b - a) * random(), on whole seconds
Uniform(a, b) == Min2(a, b)..Max2(a, b)

\* the delays wait() can choose with configuration c after errors
\* consecutive errors; 1 / requests_per_second is exact for the
\* configurations of LimConfigs
WaitDelays(c, errors) ==
    LET base_delay == 1 \div c.requests_per_second
    IN  {IF errors > 0
         THEN Min2(d0 * c.backoff_factor ^ errors, MaxBackoffDelay)
         ELSE d0 :
            d0 \in Uniform(Max2(base_delay, c.min_delay), c.max_delay)}

\* the RateLimitConfig objects a limiter is made with; rate_fields tells
\* whether the object carries requests_per_second and backoff_factor
LimConfigs ==
    [min_delay : {0, 2}, max_delay : {1, 3}, max_retries : 1..MaxRetriesBound,
     rate_fields : BOOLEAN, requests_per_second : {1}, backoff_factor : {2}]

\* crawl delays robots.txt gives for the start URL (0: none)
CrawlDelays == {0, 2, 5}

\* RateLimiter.__init__
LimInit ==
    /\ rlpc = "idle"
    /\ rate_limiter \in [config : LimConfigs, _consecutive_errors : {0}]
    /\ crawl_delay = 0
    /\ delay = -1
    /\ rlRuns = 0
    /\ rlFetches = 0
    /\ PagIdle
    /\ CleanIdle
    /\ AgentIdle
    /\ LandIdle
    /\ ParseIdle
    /\ StratIdle
    /\ ServerIdle

\* scrape() up to the page loop: the crawl delay of robots.txt raises
\* config.rate_limit.min_delay (agent.py:87-90)
LimStartScrape ==
    /\ rlpc = "idle"
    /\ rlRuns < MaxLimRuns
    /\ \E respect_robots_txt \in BOOLEAN, d \in CrawlDelays :
          /\ crawl_delay' = IF respect_robots_txt THEN d ELSE 0
          /\ rate_limiter' =
                IF respect_robots_txt /\ d > 0
                THEN [rate_limiter EXCEPT !.config.min_delay = Max2(@, d)]
                ELSE rate_limiter
    /\ rlRuns' = rlRuns + 1
    /\ rlFetches' = 0
    /\ delay' = -1
    /\ rlpc' = "wait"

\* RateLimiter.wait(), before the fetch and before the retry; it raises
\* an AttributeError when the configuration lacks requests_per_second
LimWait ==
    /\ rlpc \in {"wait", "retry_wait"}
    /\ IF rate_limiter.config.rate_fields
       THEN /\ delay' \in WaitDelays(rate_limiter.config,
                                     rate_limiter._consecutive_errors)
            /\ rlpc' = IF rlpc = "wait" THEN "fetch" ELSE "retry_fetch"
       ELSE /\ delay' = delay
            /\ rlpc' = "idle"
    /\ UNCHANGED <<rate_limiter, crawl_delay, rlRuns, rlFetches>>

\* fetch_page returns the page: report_success(), and the loop goes on to
\* the next page or ends
LimFetchOk ==
    /\ rlpc \in {"fetch", "retry_fetch"}
    /\ rate_limiter' =
          [rate_limiter EXCEPT !._consecutive_errors = report_success(@)]
    /\ rlFetches' = rlFetches + 1
    /\ rlpc' \in (IF rlFetches + 1 < MaxLimFetches THEN {"wait", "idle"}
                  ELSE {"idle"})
    /\ UNCHANGED <<crawl_delay, delay, rlRuns>>

\* the first fetch_page returns None: report_error(), then the retry if
\* should_retry
LimFetchNone ==
    /\ rlpc = "fetch"
    /\ rate_limiter' =
          [rate_limiter EXCEPT !._consecutive_errors = report_error(@)]
    /\ rlFetches' = rlFetches + 1
    /\ rlpc' = IF should_retry(report_error(rate_limiter._consecutive_errors),
                               rate_limiter.config.max_retries)
               THEN "retry_wait" ELSE "idle"
    /\ UNCHANGED <<crawl_delay, delay, rlRuns>>

\* the retry returns None, or a fetch_page call raises: the run ends
LimFetchAbort ==
    /\ rlpc \in {"fetch", "retry_fetch"}
    /\ rlFetches' = rlFetches + 1
    /\ rlpc' = "idle"
    /\ UNCHANGED <<rate_limiter, crawl_delay, delay, rlRuns>>

LimNext ==
    /\ \/ LimStartScrape
       \/ LimWait
       \/ LimFetchOk
       \/ LimFetchNone
       \/ LimFetchAbort
    /\ UNCHANGED <<pagVars, cleanVars, agentVars, landVars, parseVars, stratVars,
                   serverVars>>

SpecLimiter == LimInit /\ [][LimNext]_vars

\* C21: immediately after report_success the consecutive-error count is
\* 0, whatever number of errors was reported before it.
C21_SuccessResetsStreak ==
    [][LimFetchOk => rate_limiter'._consecutive_errors = 0]_vars

\* a wait() of a run that respects a crawl delay has chosen its delay, and
\* a fetch of the run precedes it
WaitedBetweenFetches ==
    /\ rlpc \in {"fetch", "retry_fetch"}
    /\ rlFetches > 0
    /\ crawl_delay > 0

\* C28: when robots.txt gives a crawl delay d and respect_robots_txt is
\* enabled, every delay the rate limiter chooses between two consecutive
\* fetches of the run is at least d.
C28_DelayAtLeastCrawlDelay == WaitedBetweenFetches => delay >= crawl_delay

-----------------------------------------------------------------------------
(* One call of get_next_page_url, and of _find_by_url_pattern, on a soup,  *)
(* a current URL and a handler state drawn from bounded sets               *)

UTwo      == L(<< <<"page", IntVal(1)>>, <<"start", IntVal(0)>> >>)
UTwoNext  == L(<< <<"page", IntVal(2)>>, <<"start", IntVal(0)>> >>)
UBlank    == L(<< <<"sort", BlankVal>>, <<"page", IntVal(1)>> >>)

StratUrls == {U1, UPath, UOff, UTwo, UBlank, UPlain}

\* URLs the handler may have visited before the call
StratVisited == SUBSET {U2, UTwoNext}

StratSoups ==
    {MkSoup(c, s, t) : c \in {Absent, AbsHref(U2), BadHref},
                       s \in SeqsUpTo({AbsHref(U2), BadHref}, MaxStdLinks),
                       t \in SeqsUpTo({AbsHref(U1), AbsHref(U2), BadHref}, MaxTextLinks)}

StratInputs ==
    [soup : StratSoups, cur : StratUrls, visited : StratVisited,
     page : {0}, maxp : {1, MaxPagesBound}, custom : BOOLEAN]

StratInit ==
    /\ spc = "ready"
    /\ nextArgs \in StratInputs
    /\ nextUrl = NoUrl
    /\ PagIdle
    /\ CleanIdle
    /\ AgentIdle
    /\ LandIdle
    /\ ParseIdle
    /\ LimIdle
    /\ ServerIdle

\* pagination.get_next_page_url(soup, current_url)
StratGetNext ==
    /\ spc = "ready"
    /\ nextUrl' = get_next_page_url(nextArgs.soup, nextArgs.cur, nextArgs.visited,
                                    nextArgs.page, nextArgs.maxp,
                                    nextArgs.custom).url
    /\ spc' = "next"
    /\ UNCHANGED nextArgs

\* pagination._find_by_url_pattern(current_url), current_url visited
StratUrlPattern ==
    /\ spc = "ready"
    /\ nextUrl' = _find_by_url_pattern(nextArgs.cur,
                                       nextArgs.visited \cup {nextArgs.cur})
    /\ spc' = "pattern"
    /\ UNCHANGED nextArgs

StratNext ==
    /\ \/ StratGetNext
       \/ StratUrlPattern
    /\ UNCHANGED <<pagVars, cleanVars, agentVars, landVars, parseVars, limVars,
                   serverVars>>

SpecStrat == StratInit /\ [][StratNext]_vars

\* the URLs the hrefs hs of the kinds a strategy accepts resolve to
Candidates(hs, cur, kinds) ==
    LET ok == SelectSeq(hs, LAMBDA h : h.kind \in kinds)
    IN  [i \in 1..Len(ok) |-> urljoin(cur, ok[i])]

\* the first URL of cands outside visited, none when there is no such URL
FirstUnvisited(cands, visited) ==
    LET I == {i \in 1..Len(cands) : cands[i] \notin visited}
    IN  IF I = {} THEN NoUrl
        ELSE cands[CHOOSE i \in I : \A j \in I : i <= j]

\* the candidates of the four strategies in their order: custom selector,
\* standard selectors, link text, URL-pattern inference
StrategyCandidates ==
    LET a  == nextArgs
        v2 == a.visited \cup {a.cur}
        byPattern == _find_by_url_pattern(a.cur, v2)
    IN  (IF a.custom THEN Candidates(<<a.soup.custom>>, a.cur, {"abs", "query", "hash"})
         ELSE <<>>)
        \o Candidates(a.soup.std, a.cur, {"abs", "query", "hash"})
        \o Candidates(a.soup.text, a.cur, {"abs", "query"})
        \o (IF byPattern = NoUrl THEN <<>> ELSE <<byPattern>>)

BelowCap == nextArgs.page + 1 < nextArgs.maxp

\* C24: below the page cap get_next_page_url returns the first candidate,
\* in the order custom selector, standard selectors, link text, URL
\* pattern, that is not visited; it returns none only when no strategy has
\* an unvisited candidate, and it never raises.
C24_FirstUnvisitedInOrder ==
    (spc = "next" /\ BelowCap) =>
        /\ nextUrl # RaisedUrl
        /\ nextUrl = FirstUnvisited(StrategyCandidates,
                                    nextArgs.visited \cup {nextArgs.cur})

\* a URL with every query value in canonical percent-encoding
Canon(u) ==
    [u EXCEPT !.q = [i \in 1..Len(u.q) |->
                        <<u.q[i][1], IF u.q[i][2] = RawVal THEN TxtVal ELSE u.q[i][2]>>]]

\* new is cur with the i-th query value replaced by the decimal of n
WithParam(cur, i, n) == Canon([cur EXCEPT !.q[i][2] = IntVal(n)])

\* new is cur with one page parameter increased by 1
OnePageParam(cur, new) ==
    \E i \in 1..Len(cur.q) :
        /\ InSeq(cur.q[i][1], page_params)
        /\ IsInt(cur.q[i][2])
        /\ Canon(new) = WithParam(cur, i, cur.q[i][2][2] + 1)

\* new is cur with one /page/N segment increased by 1
OnePathSegment(cur, new) ==
    \E i \in 1..Len(cur.segs) :
        Canon(new) = Canon([cur EXCEPT !.segs[i] = cur.segs[i] + 1])

\* new is cur with one offset parameter increased by the first page size,
\* in the order of page_sizes, that gives a URL outside visited
OneOffsetParam(cur, new, visited) ==
    \E i \in 1..Len(cur.q), j \in 1..Len(page_sizes) :
        /\ InSeq(cur.q[i][1], offset_params)
        /\ IsInt(cur.q[i][2])
        /\ Canon(new) = WithParam(cur, i, cur.q[i][2][2] + page_sizes[j])
        /\ \A k \in 1..(j - 1) :
              \E v \in visited :
                  Canon(v) = WithParam(cur, i, cur.q[i][2][2] + page_sizes[k])

\* C25: a URL produced by URL-pattern inference is the current URL with
\* exactly one paginated component changed: one page parameter plus 1, or
\* one /page/N segment plus 1, or one offset parameter plus the first page
\* size (24, 20, 12, 10, 48, 36, 25, 50) that gives an unvisited URL;
\* nothing else differs, whatever candidates were rejected before.
C25_OneComponentChanged ==
    (spc = "pattern" /\ nextUrl # NoUrl) =>
        \/ OnePageParam(nextArgs.cur, nextUrl)
        \/ OnePathSegment(nextArgs.cur, nextUrl)
        \/ OneOffsetParam(nextArgs.cur, nextUrl,
                          nextArgs.visited \cup {nextArgs.cur})

-----------------------------------------------------------------------------
(* Properties of URL cleaning *)

\* s.split(c)
RECURSIVE SplitOn(_, _)
SplitOn(s, c) ==
    IF IndexOf(s, c) = 0 THEN <<s>>
    ELSE <<SubSeq(s, 1, IndexOf(s, c) - 1)>> \o SplitOn(From(s, IndexOf(s, c) + 1), c)

\* the query parameters "key=value" of a URL, in order
QueryParams(url) ==
    IF IndexOf(url, "?") = 0 THEN <<>>
    ELSE SelectSeq(SplitOn(From(url, IndexOf(url, "?") + 1), "&"),
                   LAMBDA p : p # <<>>)

\* utm_*, ref, tag
IsTrackingParam(p) ==
    \E k \in 1..Len(TrackingPrefixes) : StartsWith(p, TrackingPrefixes[k])

\* the cleaned URL c of the raw URL u is absolute and its query parameters
\* are those of u that are not tracking parameters, with their values
TrackingRemoved(u, c) ==
    /\ \/ StartsWith(c, <<"h", "t", "t", "p", ":", "/", "/">>)
       \/ StartsWith(c, <<"h", "t", "t", "p", "s", ":", "/", "/">>)
    /\ QueryParams(c) = SelectSeq(QueryParams(Strip(u)),
                                  LAMBDA p : ~IsTrackingParam(p))

\* C26: the product_url of every record clean() keeps is the raw URL
\* without its tracking parameters (utm_*, ref, tag): absolute, and every
\* other query parameter still a query parameter with its value, also
\* when the tracking parameter comes first after '?'.
C26_OnlyTrackingRemoved ==
    cleanDone =>
        \A j \in 1..Len(cleanInput) :
            LET c == _clean_product(cleanInput[j])
            IN  (InSeq(c, cleanOutput) /\ Truthy(c.product_url)) =>
                    TrackingRemoved(cleanInput[j].product_url, c.product_url)

-----------------------------------------------------------------------------
(* The request limiter of the landing server (landing/server.py)           *)

RATE_WINDOW_SEC == 60

ClientKeys == {"a", "b"}

\* the clock moves by a second or by just less than a window
TickSteps == {1, RATE_WINDOW_SEC - 1}

\* [t for t in times if now - t < RATE_WINDOW_SEC]
DropOutsideWindow(times, now) ==
    SelectSeq(times, LAMBDA t : now - t < RATE_WINDOW_SEC)

ServerInit ==
    /\ landing_config \in [rate_limit_enabled : BOOLEAN,
                           rate_limit_per_minute : 1..2]
    /\ clock = 0
    /\ _rate_limit_store = [ip \in ClientKeys |-> <<>>]
    /\ threads = [th \in 1..MaxThreads |-> [pc |-> "idle", ip |-> "-", now |-> 0]]
    /\ admitted = [ip \in ClientKeys |-> <<>>]
    /\ ticks = 0
    /\ requests = 0
    /\ PagIdle
    /\ CleanIdle
    /\ AgentIdle
    /\ LandIdle
    /\ ParseIdle
    /\ LimIdle
    /\ StratIdle

\* a request thread enters analyze() and _rate_limit_exceeded(ip) up to
\* the lock: with the limiter disabled the request is admitted at once,
\* otherwise the thread reads time.monotonic() (server.py:45-47)
ReadClock(th) ==
    /\ threads[th].pc = "idle"
    /\ requests < MaxRequests
    /\ requests' = requests + 1
    /\ \E ip \in ClientKeys :
          IF landing_config.rate_limit_enabled
          THEN /\ threads' = [threads EXCEPT ![th] =
                                 [pc |-> "lock", ip |-> ip, now |-> clock]]
               /\ UNCHANGED admitted
          ELSE /\ admitted' = [admitted EXCEPT ![ip] = Append(@, clock)]
               /\ UNCHANGED threads
    /\ UNCHANGED <<landing_config, clock, _rate_limit_store, ticks>>

\* the block under _rate_limit_lock, which no other thread interleaves
\* with: prune, test, append (server.py:48-55), and the answer of analyze
WithLock(th) ==
    /\ threads[th].pc = "lock"
    /\ LET ip    == threads[th].ip
           now   == threads[th].now
           times == DropOutsideWindow(_rate_limit_store[ip], now)
       IN  IF Len(times) >= landing_config.rate_limit_per_minute
           THEN \* 429
                /\ _rate_limit_store' = [_rate_limit_store EXCEPT ![ip] = times]
                /\ UNCHANGED admitted
           ELSE /\ _rate_limit_store' =
                      [_rate_limit_store EXCEPT ![ip] = Append(times, now)]
                /\ admitted' = [admitted EXCEPT ![ip] = Append(@, now)]
    /\ threads' = [threads EXCEPT ![th] = [pc |-> "idle", ip |-> "-", now |-> 0]]
    /\ UNCHANGED <<landing_config, clock, ticks, requests>>

\* time passes
Tick ==
    /\ ticks < MaxTicks
    /\ ticks' = ticks + 1
    /\ \E d \in TickSteps : clock' = clock + d
    /\ UNCHANGED <<landing_config, _rate_limit_store, threads, admitted, requests>>

ServerNext ==
    /\ \/ \E th \in 1..MaxThreads : ReadClock(th)
       \/ \E th \in 1..MaxThreads : WithLock(th)
       \/ Tick
    /\ UNCHANGED <<pagVars, cleanVars, agentVars, landVars, parseVars, limVars,
                   stratVars>>

SpecServer == ServerInit /\ [][ServerNext]_vars

\* the number of requests of the sequence ts admitted within the window of
\* RATE_WINDOW_SEC seconds that starts with the i-th of them
InWindowFrom(ts, i) ==
    Cardinality({j \in 1..Len(ts) : ts[j] >= ts[i] /\ ts[j] - ts[i] < RATE_WINDOW_SEC})

\* C29: with the limiter enabled, for every client key the requests
\* admitted within any window of 60 seconds number at most
\* rate_limit_per_minute, under every interleaving of the request threads;
\* only admitted requests are recorded in the store, so a rejected request
\* does not extend the lock-out.
C29_AtMostLimitPerWindow ==
    landing_config.rate_limit_enabled =>
        \A ip \in ClientKeys :
            /\ \A i \in 1..Len(admitted[ip]) :
                  InWindowFrom(admitted[ip], i) <= landing_config.rate_limit_per_minute
            /\ \A k \in 1..Len(_rate_limit_store[ip]) :
                  InSeq(_rate_limit_store[ip][k], admitted[ip])

====
